---- MODULE Spec2Model ----
(***************************************************************************)
(* State-machine model of the RulesEngine of @securecheckio/rules-engine   *)
(* (dist/rules-engine.js): StateCache, RegexCache, ThresholdTracker and    *)
(* RulesEngine.evaluate with its suspension points (stateProvider.get,     *)
(* semanticMatcher.queryRules, the await on updateState and                *)
(* stateProvider.save).  One action is one run of JavaScript from a        *)
(* resumption to the next suspension.                                      *)
(***************************************************************************)
EXTENDS Integers, Sequences, FiniteSets, TLC

(***************************************************************************)
(* Bounds of the model.                                                    *)
(***************************************************************************)
MaxCalls == 3       \* evaluate invocations in one behaviour
MaxTicks == 1       \* clock advances in one behaviour
MaxInflight == 2    \* evaluate calls that may be suspended at once

(***************************************************************************)
(* Optional values: undefined is <<>>, a defined value v is <<v>>.         *)
(***************************************************************************)
None == <<>>
Some(v) == <<v>>
IsSome(o) == Len(o) > 0
Val(o) == o[1]

\* JavaScript truthiness of an optional number (undefined and 0 are falsy)
TruthyNum(o) == IsSome(o) /\ Val(o) # 0

(***************************************************************************)
(* Strings that are searched are sequences of one-character strings.       *)
(***************************************************************************)
\* String.prototype.toLowerCase, per character
LowerChar(c) ==
    CASE c = "V" -> "v"
      [] c = "U" -> "u"
      [] c = "P" -> "p"
      [] c = "B" -> "b"
      [] c = "X" -> "x"
      [] OTHER -> c

toLowerCase(s) == [i \in 1..Len(s) |-> LowerChar(s[i])]

\* String.prototype.includes
includes(hay, needle) ==
    \E i \in 0..(Len(hay) - Len(needle)) :
        SubSeq(hay, i + 1, i + Len(needle)) = needle

(***************************************************************************)
(* Conversation tuples.  TupA and TupC are distinct tuples; TupB differs   *)
(* from both in its conversation id.                                       *)
(***************************************************************************)
TupA == [tokenId |-> "u", conversationId |-> "c:d", accountId |-> None]
TupB == [tokenId |-> "u", conversationId |-> "e", accountId |-> None]
TupC == [tokenId |-> "u:c", conversationId |-> "d", accountId |-> None]
Tuples == {TupA, TupB, TupC}

\* StateCache.getKey / ThresholdTracker.getKey
getKey(tokenId, conversationId, accountId) ==
    tokenId \o ":" \o conversationId \o ":" \o
        (IF IsSome(accountId) THEN Val(accountId) ELSE "")

KeyOf(t) == getKey(t.tokenId, t.conversationId, t.accountId)

(***************************************************************************)
(* Program constants.                                                      *)
(***************************************************************************)
ttl == 300000             \* StateCache.ttl, ms
batchDelay == 100         \* setTimeout delay of scheduleBatchWrite, ms
defaultFlagTtl == 86400   \* rule.flags.ttl || 86400, s
dayMs == 86400000         \* 24 * 60 * 60 * 1000
defaultActionValue == 5   \* actionPriority[rule.action] || 5
\* StateCache.maxSize is 10000 in the source; the model scales it down so
\* that the eviction branch of StateCache.set is exercised.
maxSize == 2

(***************************************************************************)
(* Rules (types.d.ts Rule).  A regex pattern is a literal text or a        *)
(* pattern that does not compile.                                          *)
(***************************************************************************)
BaseFlags == [set |-> None, unset |-> None, check |-> None, ttl |-> None]

BaseRule ==
    [id |-> "", content |-> None, pcre |-> None, semantic |-> None,
     semanticThreshold |-> None, flags |-> None, threshold |-> None,
     window |-> None, severity |-> "low", action |-> "pass",
     enabled |-> TRUE, nocase |-> None]

Lit(text) == [valid |-> TRUE, text |-> text]
BadPattern == [valid |-> FALSE, text |-> <<"(">>]

\* the three rules of the multi-stage phishing scenario
R1 == [BaseRule EXCEPT !.id = "R1", !.content = Some(<< <<"v">> >>),
          !.flags = Some([BaseFlags EXCEPT !.set = Some(<<"s1">>)])]
R2 == [BaseRule EXCEPT !.id = "R2", !.content = Some(<< <<"u">> >>),
          !.flags = Some([BaseFlags EXCEPT !.check = Some(<<"s1">>),
                                           !.set = Some(<<"s2">>)]),
          !.severity = "medium"]
R3 == [BaseRule EXCEPT !.id = "R3", !.content = Some(<< <<"p">> >>),
          !.flags = Some([BaseFlags EXCEPT !.check = Some(<<"s2">>)]),
          !.severity = "critical", !.action = "block"]
\* gated on s2, unsets s1
U2 == [BaseRule EXCEPT !.id = "U2", !.content = Some(<< <<"p">> >>),
          !.flags = Some([BaseFlags EXCEPT !.check = Some(<<"s2">>),
                                           !.unset = Some(<<"s1">>)]),
          !.action = "set_flag"]
\* set_flag rules that set and unset s1
F1 == [BaseRule EXCEPT !.id = "F1", !.content = Some(<< <<"v">> >>),
          !.flags = Some([BaseFlags EXCEPT !.set = Some(<<"s1">>), !.ttl = Some(60)]),
          !.action = "set_flag"]
U1 == [BaseRule EXCEPT !.id = "U1", !.content = Some(<< <<"x">> >>),
          !.flags = Some([BaseFlags EXCEPT !.unset = Some(<<"s1">>)]),
          !.action = "set_flag"]
\* sets s2 without a gate
Q1 == [BaseRule EXCEPT !.id = "Q1", !.content = Some(<< <<"u">> >>),
          !.flags = Some([BaseFlags EXCEPT !.set = Some(<<"s2">>)]),
          !.action = "set_flag"]
\* gated on s1
G1 == [BaseRule EXCEPT !.id = "G1", !.content = Some(<< <<"x">> >>),
          !.flags = Some([BaseFlags EXCEPT !.check = Some(<<"s1">>)]),
          !.severity = "high", !.action = "block"]
G2 == [BaseRule EXCEPT !.id = "G2", !.content = Some(<< <<"v">> >>),
          !.flags = Some([BaseFlags EXCEPT !.check = Some(<<"s1">>)]),
          !.severity = "high", !.action = "alert"]
\* two flags set and one unset by one rule; its follower, gated on s1
H1 == [BaseRule EXCEPT !.id = "H1", !.content = Some(<< <<"v">> >>),
          !.flags = Some([BaseFlags EXCEPT !.set = Some(<<"s1", "s2">>),
                                           !.unset = Some(<<"s3">>)]),
          !.action = "set_flag"]
H2 == [BaseRule EXCEPT !.id = "H2", !.content = Some(<< <<"u">> >>),
          !.flags = Some([BaseFlags EXCEPT !.check = Some(<<"s1">>),
                                           !.set = Some(<<"s3">>),
                                           !.unset = Some(<<"s1">>)]),
          !.action = "set_flag"]
\* a threshold rule that sets a flag
TB == [BaseRule EXCEPT !.id = "TB", !.content = Some(<< <<"b">> >>),
          !.threshold = Some(2), !.window = Some(10),
          !.flags = Some([BaseFlags EXCEPT !.set = Some(<<"s1">>)]),
          !.severity = "medium", !.action = "alert"]
\* critical block without flags
K1 == [BaseRule EXCEPT !.id = "K1", !.content = Some(<< <<"k">> >>),
          !.pcre = Some(<<Lit(<<"k">>)>>),
          !.severity = "critical", !.action = "block"]
\* threshold rules
T2 == [BaseRule EXCEPT !.id = "T2", !.content = Some(<< <<"b">> >>),
          !.threshold = Some(2), !.window = Some(10),
          !.severity = "medium", !.action = "alert"]
T3 == [BaseRule EXCEPT !.id = "T3", !.content = Some(<< <<"b">> >>),
          !.threshold = Some(3), !.window = Some(10),
          !.severity = "medium", !.action = "block"]
\* a threshold of 1, a threshold without a window, a window without a
\* threshold on a rule that sets a flag
TA == [BaseRule EXCEPT !.id = "TA", !.content = Some(<< <<"b">> >>),
          !.threshold = Some(1), !.window = Some(10),
          !.severity = "medium", !.action = "alert"]
TW == [BaseRule EXCEPT !.id = "TW", !.content = Some(<< <<"b">> >>),
          !.threshold = Some(2),
          !.severity = "low", !.action = "flag"]
TV == [BaseRule EXCEPT !.id = "TV", !.content = Some(<< <<"b">> >>),
          !.window = Some(10),
          !.flags = Some([BaseFlags EXCEPT !.set = Some(<<"s1">>)]),
          !.severity = "low", !.action = "set_flag"]
\* content, semantic and a threshold
T4 == [BaseRule EXCEPT !.id = "T4", !.content = Some(<< <<"b">> >>),
          !.semantic = Some(<<"urgent account verify">>),
          !.threshold = Some(2), !.window = Some(10),
          !.severity = "medium", !.action = "alert"]
\* content and semantic, semantic only
S1 == [BaseRule EXCEPT !.id = "S1", !.content = Some(<< <<"u">> >>),
          !.semantic = Some(<<"urgent account verify">>),
          !.severity = "high", !.action = "flag"]
S3 == [BaseRule EXCEPT !.id = "S3", !.content = Some(<< <<"k">> >>),
          !.semantic = Some(<<"urgent account verify">>),
          !.severity = "high", !.action = "flag"]
S2 == [BaseRule EXCEPT !.id = "S2",
          !.semantic = Some(<<"send me your password">>),
          !.severity = "high", !.action = "alert"]
\* pure-stateful: only flags.check
P1 == [BaseRule EXCEPT !.id = "P1",
          !.flags = Some([BaseFlags EXCEPT !.check = Some(<<"s1">>)]),
          !.severity = "high", !.action = "alert"]
\* case-sensitive keyword and regex
N1 == [BaseRule EXCEPT !.id = "N1", !.content = Some(<< <<"V">>, <<"p">> >>),
          !.pcre = Some(<<Lit(<<"V">>), Lit(<<"p">>)>>),
          !.nocase = Some(FALSE), !.action = "allow"]
\* case-sensitive keyword, two regexes
N2 == [BaseRule EXCEPT !.id = "N2", !.content = Some(<< <<"V">> >>),
          !.pcre = Some(<<Lit(<<"V">>), Lit(<<"p">>)>>),
          !.nocase = Some(FALSE), !.action = "allow"]
\* two keywords, nocase unset
M1 == [BaseRule EXCEPT !.id = "M1", !.content = Some(<< <<"V">>, <<"p">> >>),
          !.flags = Some([BaseFlags EXCEPT !.set = Some(<<"s1">>)]),
          !.action = "set_flag"]
\* two regexes, nocase true
P2 == [BaseRule EXCEPT !.id = "P2",
          !.pcre = Some(<<Lit(<<"v">>), Lit(<<"U">>)>>),
          !.nocase = Some(TRUE), !.action = "flag"]
\* a pattern that does not compile
B1 == [BaseRule EXCEPT !.id = "B1", !.pcre = Some(<<BadPattern>>),
          !.action = "sanitize"]
\* disabled
D1 == [BaseRule EXCEPT !.id = "D1", !.content = Some(<< <<"v">> >>),
          !.action = "block", !.enabled = FALSE]

\* the arrays passed to loadRules
LibPhish == <<R1, R2, R3, T2, S1, U2>>
LibGate == <<G1, P1, K1, U1, F1, S3, D1>>
LibRate == <<T3, T2, F1, T4>>
LibCase == <<N1, B1, S2, D1>>
LibRace == <<R1, Q1, S1>>
LibAnd == <<N1, N2, M1, P2, D1>>
LibOff == <<D1, P2, S2>>
LibSem == <<R1, S2, S1>>
LibDet == <<K1, T2, R1, S1>>
LibHist == <<H1, H2, S1>>
LibBurst == <<S1, TB>>
LibCount == <<S1, TA, T3, TW, TV>>
Libraries == {LibPhish, LibGate, LibRate, LibCase, LibRace, LibAnd, LibOff, LibSem,
              LibDet, LibHist, LibBurst, LibCount}

AllRules ==
    UNION {{l[i] : i \in 1..Len(l)} : l \in Libraries}
SemanticIds ==
    {r.id : r \in {q \in AllRules : IsSome(q.semantic)}}

(***************************************************************************)
(* RulesEngine.getRulePriority and RulesEngine.loadRules                   *)
(***************************************************************************)
\* the actionPriority table; absent keys read as undefined
actionPriority(action) ==
    CASE action = "pass" -> Some(0)
      [] action = "set_flag" -> Some(1)
      [] action = "flag" -> Some(2)
      [] action = "alert" -> Some(3)
      [] action = "block" -> Some(4)
      [] OTHER -> None

typeCost(rule) ==
    (IF IsSome(rule.content) THEN 1 ELSE 0) +
    (IF IsSome(rule.pcre) THEN 2 ELSE 0) +
    (IF IsSome(rule.semantic) THEN 3 ELSE 0) +
    (IF IsSome(rule.flags) THEN 4 ELSE 0)

getRulePriority(rule) ==
    LET actionValue ==
            IF TruthyNum(actionPriority(rule.action))
            THEN Val(actionPriority(rule.action))
            ELSE defaultActionValue
    IN  (actionValue * 10) + typeCost(rule)

\* rules.filter(r => r.enabled)
RECURSIVE EnabledRules(_)
EnabledRules(rs) ==
    IF rs = <<>> THEN <<>>
    ELSE IF Head(rs).enabled THEN <<Head(rs)>> \o EnabledRules(Tail(rs))
         ELSE EnabledRules(Tail(rs))

\* a sort that is not stable: an element goes before the elements with its key
RECURSIVE InsertByPriorityUnstable(_, _)
InsertByPriorityUnstable(sorted, x) ==
    IF sorted = <<>> THEN <<x>>
    ELSE IF getRulePriority(Head(sorted)) < getRulePriority(x)
         THEN <<Head(sorted)>> \o InsertByPriorityUnstable(Tail(sorted), x)
         ELSE <<x>> \o sorted

\* Array.prototype.sort with (a, b) => priority(a) - priority(b); the sort
\* is stable, so an element goes after every element with a key <= its own
RECURSIVE InsertByPriority(_, _)
InsertByPriority(sorted, x) ==
    IF sorted = <<>> THEN <<x>>
    ELSE IF getRulePriority(Head(sorted)) <= getRulePriority(x)
         THEN <<Head(sorted)>> \o InsertByPriority(Tail(sorted), x)
         ELSE <<x>> \o sorted

RECURSIVE SortByPriority(_)
SortByPriority(s) ==
    IF s = <<>> THEN <<>>
    ELSE InsertByPriority(SortByPriority(SubSeq(s, 1, Len(s) - 1)), s[Len(s)])

\* a load that keeps the disabled rules
loadRulesListAll(rs) == SortByPriority(rs)

loadRulesList(rs) == SortByPriority(EnabledRules(rs))

\* the array of the caller after loadRules(rs): filter returns a new array
\* and sort works on that one, so the argument is left as it was
loadRulesArgument(rs) == rs

(***************************************************************************)
(* StateCache.  The Map is a sequence of entries in insertion order.       *)
(***************************************************************************)
\* Map.get: the position of the entry of a key, 0 when there is none
IndexOfKey(cache, key) ==
    IF \E i \in 1..Len(cache) : cache[i].key = key
    THEN CHOOSE i \in 1..Len(cache) : cache[i].key = key
    ELSE 0

RemoveAt(s, i) == SubSeq(s, 1, i - 1) \o SubSeq(s, i + 1, Len(s))

\* the entry accessed last, the later one of equals
NewestIndex(cache) ==
    CHOOSE i \in 1..Len(cache) :
        /\ \A j \in 1..Len(cache) : cache[i].lastAccess >= cache[j].lastAccess
        /\ \A j \in (i + 1)..Len(cache) : cache[j].lastAccess < cache[i].lastAccess

\* Array.from(entries).sort((a, b) => a[1].lastAccess - b[1].lastAccess)[0]
OldestIndex(cache) ==
    CHOOSE i \in 1..Len(cache) :
        /\ \A j \in 1..Len(cache) : cache[i].lastAccess <= cache[j].lastAccess
        /\ \A j \in 1..(i - 1) : cache[j].lastAccess > cache[i].lastAccess

\* a get that still returns an entry last accessed exactly ttl ago
StateCacheGetInclusive(cache, key, now) ==
    LET i == IndexOfKey(cache, key)
    IN  IF i # 0 /\ now - cache[i].lastAccess <= ttl
        THEN [cache |-> [cache EXCEPT ![i].lastAccess = now],
              state |-> Some(cache[i].state)]
        ELSE [cache |-> cache, state |-> None]

\* StateCache.get: the refreshed cache and the state returned (or null)
StateCacheGet(cache, key, now) ==
    LET i == IndexOfKey(cache, key)
    IN  IF i # 0 /\ now - cache[i].lastAccess < ttl
        THEN [cache |-> [cache EXCEPT ![i].lastAccess = now],
              state |-> Some(cache[i].state)]
        ELSE [cache |-> cache, state |-> None]

\* StateCache.set
StateCacheSet(cache, key, state, now) ==
    LET c1 == IF Len(cache) >= maxSize /\ Len(cache) > 0
              THEN RemoveAt(cache, OldestIndex(cache))
              ELSE cache
        entry == [key |-> key, state |-> state, lastAccess |-> now, dirty |-> FALSE]
        i == IndexOfKey(c1, key)
    IN  IF i = 0 THEN Append(c1, entry) ELSE [c1 EXCEPT ![i] = entry]

\* a schedule that arms a timer at every call
scheduleBatchWriteAlways(timer, now) == Some(now + batchDelay)

\* StateCache.scheduleBatchWrite: the timer is null or its due time
scheduleBatchWrite(timer, now) ==
    IF IsSome(timer) THEN timer ELSE Some(now + batchDelay)

\* StateCache.markDirty on the cache, the write queue and the timer
markDirty(w, key, now) ==
    LET i == IndexOfKey(w.cache, key)
    IN  IF i # 0
        THEN [w EXCEPT !.cache = [w.cache EXCEPT ![i].dirty = TRUE],
                       !.writeQueue = w.writeQueue \cup {key},
                       !.timer = scheduleBatchWrite(w.timer, now)]
        ELSE w

(***************************************************************************)
(* RegexCache: the keys of the compiled patterns.                          *)
(***************************************************************************)
RegexKey(pattern, flags) == <<pattern, flags>>

(***************************************************************************)
(* ThresholdTracker: key -> (rule id -> entry)                             *)
(***************************************************************************)
Put(f, k, v) == [x \in (DOMAIN f) \cup {k} |-> IF x = k THEN v ELSE f[x]]
Drop(f, k) == [x \in (DOMAIN f) \ {k} |-> f[x]]
EmptyMap == [x \in {} |-> 0]

\* a tracker that fires at the threshold and keeps the entry it counted in
ThresholdCheckKept(trackers, rule, key, now) ==
    IF ~TruthyNum(rule.threshold) \/ ~TruthyNum(rule.window)
    THEN [trackers |-> trackers, met |-> TRUE]
    ELSE
      LET t1 == IF key \in DOMAIN trackers THEN trackers
                ELSE Put(trackers, key, EmptyMap)
          conv == t1[key]
      IN  IF rule.id \notin DOMAIN conv \/ now > conv[rule.id].windowEnd
          THEN [trackers |->
                   Put(t1, key, Put(conv, rule.id,
                       [count |-> 1, firstMatch |-> now,
                        windowEnd |-> now + (Val(rule.window) * 1000)])),
                met |-> (Val(rule.threshold) = 1)]
          ELSE
            LET c == conv[rule.id].count + 1
            IN  [trackers |->
                     Put(t1, key, Put(conv, rule.id,
                         [conv[rule.id] EXCEPT !.count = c])),
                 met |-> (c >= Val(rule.threshold))]

\* a tracker in which every call starts from the counter it saw when no
\* call had counted yet
ThresholdCheckBlind(trackers, rule, key, now) ==
    IF ~TruthyNum(rule.threshold) \/ ~TruthyNum(rule.window)
    THEN [trackers |-> trackers, met |-> TRUE]
    ELSE
      LET t1 == IF key \in DOMAIN trackers THEN trackers
                ELSE Put(trackers, key, EmptyMap)
      IN  [trackers |->
               Put(t1, key, Put(t1[key], rule.id,
                   [count |-> 1, firstMatch |-> now,
                    windowEnd |-> now + (Val(rule.window) * 1000)])),
           met |-> (Val(rule.threshold) = 1)]

\* a tracker that fires one qualifying evaluation late and keeps its entry
ThresholdCheckLate(trackers, rule, key, now) ==
    IF ~TruthyNum(rule.threshold) \/ ~TruthyNum(rule.window)
    THEN [trackers |-> trackers, met |-> TRUE]
    ELSE
      LET t1 == IF key \in DOMAIN trackers THEN trackers
                ELSE Put(trackers, key, EmptyMap)
          conv == t1[key]
      IN  IF rule.id \notin DOMAIN conv \/ now > conv[rule.id].windowEnd
          THEN [trackers |->
                   Put(t1, key, Put(conv, rule.id,
                       [count |-> 1, firstMatch |-> now,
                        windowEnd |-> now + (Val(rule.window) * 1000)])),
                met |-> (Val(rule.threshold) = 1)]
          ELSE
            LET c == conv[rule.id].count + 1
            IN  [trackers |->
                     Put(t1, key, Put(conv, rule.id,
                         [conv[rule.id] EXCEPT !.count = c])),
                 met |-> (c > Val(rule.threshold))]

\* ThresholdTracker.check: the trackers afterwards and the value returned
ThresholdCheck(trackers, rule, key, now) ==
    IF ~TruthyNum(rule.threshold) \/ ~TruthyNum(rule.window)
    THEN [trackers |-> trackers, met |-> TRUE]
    ELSE
      LET t1 == IF key \in DOMAIN trackers THEN trackers
                ELSE Put(trackers, key, EmptyMap)
          conv == t1[key]
      IN  IF rule.id \notin DOMAIN conv \/ now > conv[rule.id].windowEnd
          THEN [trackers |->
                   Put(t1, key, Put(conv, rule.id,
                       [count |-> 1, firstMatch |-> now,
                        windowEnd |-> now + (Val(rule.window) * 1000)])),
                met |-> (Val(rule.threshold) = 1)]
          ELSE
            LET c == conv[rule.id].count + 1
            IN  IF c >= Val(rule.threshold)
                THEN [trackers |-> Put(t1, key, Drop(conv, rule.id)),
                      met |-> TRUE]
                ELSE [trackers |->
                         Put(t1, key, Put(conv, rule.id,
                             [conv[rule.id] EXCEPT !.count = c])),
                      met |-> FALSE]

(***************************************************************************)
(* ConversationState                                                       *)
(***************************************************************************)
\* the state synthesized by evaluate on a miss
FreshState(ctx, now) ==
    [id |-> getKey(ctx.tokenId, ctx.conversationId, ctx.accountId),
     tokenId |-> ctx.tokenId, conversationId |-> ctx.conversationId,
     accountId |-> ctx.accountId,
     flags |-> EmptyMap, flagHistory |-> <<>>,
     expiresAt |-> now + dayMs, createdAt |-> now, updatedAt |-> now]

FlagTrue(state, flag) == flag \in DOMAIN state.flags /\ state.flags[flag] = TRUE

\* the predicate of RulesEngine.preFilterRules
Eligible(rule, state) ==
    \/ ~IsSome(rule.flags)
    \/ ~IsSome(Val(rule.flags).check)
    \/ Len(Val(Val(rule.flags).check)) = 0
    \/ \A i \in 1..Len(Val(Val(rule.flags).check)) :
          FlagTrue(state, Val(Val(rule.flags).check)[i])

RECURSIVE preFilterRules(_, _)
preFilterRules(rules, state) ==
    IF rules = <<>> THEN <<>>
    ELSE IF Eligible(Head(rules), state)
         THEN <<Head(rules)>> \o preFilterRules(Tail(rules), state)
         ELSE preFilterRules(Tail(rules), state)

\* loops that put the new entry in front of the history
RECURSIVE ApplyFlagsInFront(_, _, _, _, _)
ApplyFlagsInFront(st, names, value, ruleId, now) ==
    IF names = <<>> THEN st
    ELSE ApplyFlagsInFront(
            [st EXCEPT !.flags = Put(st.flags, Head(names), value),
                       !.flagHistory =
                           <<[flag |-> Head(names),
                              action |-> IF value THEN "set" ELSE "unset",
                              ruleId |-> ruleId, timestamp |-> now]>> \o st.flagHistory],
            Tail(names), value, ruleId, now)

\* the loops of updateState over flags.set and flags.unset
RECURSIVE ApplyFlags(_, _, _, _, _)
ApplyFlags(st, names, value, ruleId, now) ==
    IF names = <<>> THEN st
    ELSE ApplyFlags(
            [st EXCEPT !.flags = Put(st.flags, Head(names), value),
                       !.flagHistory = Append(st.flagHistory,
                           [flag |-> Head(names),
                            action |-> IF value THEN "set" ELSE "unset",
                            ruleId |-> ruleId, timestamp |-> now])],
            Tail(names), value, ruleId, now)

\* an update that starts from an empty flag map instead of state.flags
UpdatedStateFresh(rule, state, now) ==
    LET fl == Val(rule.flags)
        s0 == [state EXCEPT !.flags = EmptyMap]
        s1 == IF IsSome(fl.set)
              THEN ApplyFlags(s0, Val(fl.set), TRUE, rule.id, now) ELSE s0
        s2 == IF IsSome(fl.unset)
              THEN ApplyFlags(s1, Val(fl.unset), FALSE, rule.id, now) ELSE s1
        flagTtl == IF TruthyNum(fl.ttl) THEN Val(fl.ttl) ELSE defaultFlagTtl
    IN  [s2 EXCEPT !.expiresAt = now + (flagTtl * 1000), !.updatedAt = now]

\* the record built by RulesEngine.updateState for a rule with flags
UpdatedState(rule, state, now) ==
    LET fl == Val(rule.flags)
        s1 == IF IsSome(fl.set)
              THEN ApplyFlags(state, Val(fl.set), TRUE, rule.id, now) ELSE state
        s2 == IF IsSome(fl.unset)
              THEN ApplyFlags(s1, Val(fl.unset), FALSE, rule.id, now) ELSE s1
        flagTtl == IF TruthyNum(fl.ttl) THEN Val(fl.ttl) ELSE defaultFlagTtl
    IN  [s2 EXCEPT !.expiresAt = now + (flagTtl * 1000), !.updatedAt = now]

\* an update that stores the new state without marking the tuple dirty
updateStateUnmarked(w, rule, ctx, state, now) ==
    IF ~IsSome(rule.flags) THEN [w |-> w, state |-> state]
    ELSE
      LET key == getKey(ctx.tokenId, ctx.conversationId, ctx.accountId)
          updatedState == UpdatedState(rule, state, now)
      IN  [w |-> [w EXCEPT !.cache = StateCacheSet(w.cache, key, updatedState, now)],
           state |-> updatedState]

\* RulesEngine.updateState: the engine afterwards and the state returned
updateState(w, rule, ctx, state, now) ==
    IF ~IsSome(rule.flags) THEN [w |-> w, state |-> state]
    ELSE
      LET key == getKey(ctx.tokenId, ctx.conversationId, ctx.accountId)
          updatedState == UpdatedState(rule, state, now)
          w1 == [w EXCEPT !.cache = StateCacheSet(w.cache, key, updatedState, now)]
      IN  [w |-> markDirty(w1, key, now), state |-> updatedState]

(***************************************************************************)
(* The state of the program.                                               *)
(***************************************************************************)
VARIABLES
    rules,        \* RulesEngine.rules
    cache,        \* StateCache.cache
    writeQueue,   \* StateCache.writeQueue
    timer,        \* StateCache.writeBatchTimer: null or the due time
    regexCache,   \* RegexCache.cache (its keys)
    trackers,     \* ThresholdTracker.trackers
    hasProvider,  \* options.stateProvider is given
    hasMatcher,   \* options.semanticMatcher is given
    store,        \* the records held by the state provider
    now,          \* Date.now()
    frames,       \* the evaluate calls in flight, one frame per slot
    kept,         \* a state of an earlier result that the caller kept
    calls, ticks,
    sc            \* the inputs on offer: rule arrays, messages, tuples, delays, configs

vars == <<rules, cache, writeQueue, timer, regexCache, trackers, hasProvider,
          hasMatcher, store, now, frames, kept, calls, ticks, sc>>

Slots == 1..MaxInflight

\* the similarity a semantic match reports, in thousandths
SimilarityValues == {900}

NoCtx == [tokenId |-> "", conversationId |-> "", accountId |-> None,
          message |-> <<>>, state |-> None]

IdleFrame ==
    [pc |-> "idle", ctx |-> NoCtx, state |-> None, hydrated |-> None,
     eligible |-> <<>>, i |-> 0, results |-> <<>>, matched |-> FALSE,
     matchedPattern |-> None, similarity |-> None, pending |-> None,
     saveIdx |-> 0]

\* the engine's mutable parts as one record
World == [cache |-> cache, writeQueue |-> writeQueue, timer |-> timer,
          regexCache |-> regexCache, trackers |-> trackers]

(***************************************************************************)
(* The stages of evaluate.                                                 *)
(***************************************************************************)
\* rule.nocase !== false
NoCase(rule) == ~(IsSome(rule.nocase) /\ Val(rule.nocase) = FALSE)

\* a content stage that is satisfied by any one keyword
ContentMatchesAny(rule, message) ==
    LET searchContent == IF NoCase(rule) THEN toLowerCase(message) ELSE message
    IN  \E k \in 1..Len(Val(rule.content)) :
           LET keyword == Val(rule.content)[k]
               searchKeyword == IF NoCase(rule) THEN toLowerCase(keyword) ELSE keyword
           IN  includes(searchContent, searchKeyword)

\* rule.content.every(keyword => searchContent.includes(searchKeyword))
ContentMatches(rule, message) ==
    LET searchContent == IF NoCase(rule) THEN toLowerCase(message) ELSE message
    IN  \A k \in 1..Len(Val(rule.content)) :
           LET keyword == Val(rule.content)[k]
               searchKeyword == IF NoCase(rule) THEN toLowerCase(keyword) ELSE keyword
           IN  includes(searchContent, searchKeyword)

\* Array.prototype.join(', ')
RECURSIVE Join(_)
Join(parts) ==
    IF parts = <<>> THEN <<>>
    ELSE IF Len(parts) = 1 THEN Head(parts)
         ELSE Head(parts) \o <<",", " ">> \o Join(Tail(parts))

\* regex.exec(message) of a literal pattern from lastIndex 0: match[0] or null
RegexExec(pattern, flags, message) ==
    LET fold(t) == IF flags = "gi" THEN toLowerCase(t) ELSE t
        hits == {i \in 0..(Len(message) - Len(pattern.text)) :
                    SubSeq(fold(message), i + 1, i + Len(pattern.text)) = fold(pattern.text)}
    IN  IF hits = {} THEN None
        ELSE LET first == CHOOSE i \in hits : \A j \in hits : i <= j
             IN  Some(SubSeq(message, first + 1, first + Len(pattern.text)))

\* a pcre stage without `regex.lastIndex = 0`: a pattern that was compiled
\* and used before goes on from the end of its last match and finds nothing
RECURSIVE PcreStageSticky(_, _, _, _, _)
PcreStageSticky(rc, patterns, flags, message, mp) ==
    IF patterns = <<>> THEN [regexCache |-> rc, outcome |-> "pass", mp |-> mp]
    ELSE
      LET pattern == Head(patterns)
          key == RegexKey(pattern, flags)
      IN  IF key \notin rc /\ ~pattern.valid
          THEN [regexCache |-> rc, outcome |-> "throw", mp |-> mp]
          ELSE
            LET rc1 == rc \cup {key}
                match == IF key \in rc THEN None
                         ELSE RegexExec(pattern, flags, message)
                mp1 == IF IsSome(match) /\ ~(IsSome(mp) /\ Len(Val(mp)) > 0)
                       THEN match ELSE mp
            IN  IF IsSome(match)
                THEN PcreStageSticky(rc1, Tail(patterns), flags, message, mp1)
                ELSE [regexCache |-> rc1, outcome |-> "fail", mp |-> mp1]

\* rule.pcre.every(...): stops at the first pattern without a match;
\* new RegExp throws on a pattern that does not compile
RECURSIVE PcreStage(_, _, _, _, _)
PcreStage(rc, patterns, flags, message, mp) ==
    IF patterns = <<>> THEN [regexCache |-> rc, outcome |-> "pass", mp |-> mp]
    ELSE
      LET pattern == Head(patterns)
          key == RegexKey(pattern, flags)
      IN  IF key \notin rc /\ ~pattern.valid
          THEN [regexCache |-> rc, outcome |-> "throw", mp |-> mp]
          ELSE
            LET rc1 == rc \cup {key}
                match == RegexExec(pattern, flags, message)
                mp1 == IF IsSome(match) /\ ~(IsSome(mp) /\ Len(Val(mp)) > 0)
                       THEN match ELSE mp
            IN  IF IsSome(match)
                THEN PcreStage(rc1, Tail(patterns), flags, message, mp1)
                ELSE [regexCache |-> rc1, outcome |-> "fail", mp |-> mp1]

DigitChar(d) ==
    CASE d = 0 -> "0" [] d = 1 -> "1" [] d = 2 -> "2" [] d = 3 -> "3"
      [] d = 4 -> "4" [] d = 5 -> "5" [] d = 6 -> "6" [] d = 7 -> "7"
      [] d = 8 -> "8" [] OTHER -> "9"

\* (similarity * 100).toFixed(1) for a similarity in thousandths, 0..1000
PercentText(sim) ==
    LET whole == sim \div 10
        lead == IF whole >= 100 THEN <<DigitChar(whole \div 100)>> ELSE <<>>
        mid == IF whole >= 10 THEN <<DigitChar((whole \div 10) % 10)>> ELSE <<>>
    IN  lead \o mid \o <<DigitChar(whole % 10), ".", DigitChar(sim % 10)>>

SemanticPattern(sim) == <<"semantic match (">> \o PercentText(sim) \o <<"%)">>

ThresholdReason(rule) ==
    <<"Threshold not met (", Val(rule.threshold), " in ", Val(rule.window), "s)">>

NonMatch(rule) ==
    [matched |-> FALSE, rule |-> rule, action |-> None, state |-> None,
     reason |-> Some(ThresholdReason(rule)), matchedPattern |-> None,
     similarity |-> None]

Match(rule, state, mp, sim) ==
    [matched |-> TRUE, rule |-> rule, action |-> Some(rule.action),
     state |-> Some(state), reason |-> None, matchedPattern |-> mp,
     similarity |-> sim]

(***************************************************************************)
(* evaluate between two suspension points.  Each operator takes the        *)
(* engine w and the frame f of the call and yields both as they are when   *)
(* the call next suspends, returns or throws.                              *)
(***************************************************************************)
\* the post-evaluation loop: the next result with a state is saved
FlushSaves(w, f, from) ==
    LET todo == {k \in from..Len(f.results) : IsSome(f.results[k].state)}
    IN  IF hasProvider /\ todo # {}
        THEN [w |-> w,
              f |-> [f EXCEPT !.pc = "awaitSave",
                              !.saveIdx = CHOOSE k \in todo : \A j \in todo : k <= j]]
        ELSE [w |-> w, f |-> [f EXCEPT !.pc = "returned"]]

\* a loop in which the states of the earlier results and the hydrated state
\* are the one object the pass goes on writing to
AdvanceAliased(f) ==
    [f EXCEPT !.i = @ + 1, !.matched = FALSE, !.matchedPattern = None,
              !.similarity = None, !.pending = None,
              !.hydrated = f.state,
              !.results = [k \in 1..Len(f.results) |->
                              IF IsSome(f.results[k].state)
                              THEN [f.results[k] EXCEPT !.state = f.state]
                              ELSE f.results[k]]]

\* the next iteration of the loop: the per-rule locals are declared anew
Advance(f) ==
    [f EXCEPT !.i = @ + 1, !.matched = FALSE, !.matchedPattern = None,
              !.similarity = None, !.pending = None]

RECURSIVE RunRules(_, _)
RECURSIVE AfterStages(_, _, _, _, _)

\* line 248 onwards for the rule at f.i: the matched test, the threshold
\* check and the body of updateState, up to the await on its promise
AfterStages(w, f, matched, mp, sim) ==
    LET rule == f.eligible[f.i]
    IN  IF ~matched THEN RunRules(w, Advance(f))
        ELSE
          LET th == ThresholdCheck(w.trackers, rule,
                        getKey(f.ctx.tokenId, f.ctx.conversationId, f.ctx.accountId),
                        now)
              w1 == [w EXCEPT !.trackers = th.trackers]
          IN  IF ~th.met
              THEN RunRules(w1, Advance([f EXCEPT !.results = Append(@, NonMatch(rule))]))
              ELSE
                LET up == updateState(w1, rule, f.ctx, Val(f.state), now)
                IN  [w |-> up.w,
                     f |-> [f EXCEPT !.pc = "awaitUpdate",
                                     !.pending = Some(up.state),
                                     !.matched = TRUE,
                                     !.matchedPattern = mp,
                                     !.similarity = sim]]

\* the loop body from its top for the rule at f.i (stages 1 and 2, and the
\* call of queryRules), or the end of the loop
RunRules(w, f) ==
    IF f.i > Len(f.eligible) THEN FlushSaves(w, f, 1)
    ELSE
      LET rule == f.eligible[f.i]
          message == f.ctx.message
          hasContent == IsSome(rule.content) /\ Len(Val(rule.content)) > 0
          hasPcre == IsSome(rule.pcre) /\ Len(Val(rule.pcre)) > 0
          hasSemantic == IsSome(rule.semantic) /\ Len(Val(rule.semantic)) > 0
      IN  IF hasContent /\ ~ContentMatches(rule, message)
          THEN RunRules(w, Advance(f))
          ELSE
            LET mp1 == IF hasContent THEN Some(Join(Val(rule.content))) ELSE None
                pcre == IF hasPcre
                        THEN PcreStage(w.regexCache, Val(rule.pcre),
                                       IF NoCase(rule) THEN "gi" ELSE "g",
                                       message, mp1)
                        ELSE [regexCache |-> w.regexCache, outcome |-> "pass", mp |-> mp1]
                w1 == [w EXCEPT !.regexCache = pcre.regexCache]
                matched == hasContent \/ hasPcre
            IN  IF pcre.outcome = "throw"
                THEN [w |-> w1, f |-> [f EXCEPT !.pc = "threw"]]
                ELSE IF pcre.outcome = "fail"
                THEN RunRules(w1, Advance(f))
                ELSE IF hasSemantic /\ hasMatcher
                THEN [w |-> w1,
                      f |-> [f EXCEPT !.pc = "awaitSemantic",
                                      !.matched = matched,
                                      !.matchedPattern = pcre.mp]]
                ELSE AfterStages(w1, f, matched, pcre.mp, None)

\* lines 184-199: synthesize the state on a miss, pre-filter, enter the loop
Hydrated(w, f, found) ==
    LET key == getKey(f.ctx.tokenId, f.ctx.conversationId, f.ctx.accountId)
        state == IF IsSome(found) THEN Val(found) ELSE FreshState(f.ctx, now)
        w1 == IF IsSome(found) THEN w
              ELSE [w EXCEPT !.cache = StateCacheSet(w.cache, key, state, now)]
    IN  RunRules(w1, [f EXCEPT !.state = Some(state),
                               !.hydrated = Some(state),
                               !.eligible = preFilterRules(rules, state),
                               !.i = 1])

\* a start that looks the tuple up even when ctx.state is given
StartEvaluateLookup(w, ctx) ==
    LET f == [IdleFrame EXCEPT !.ctx = ctx]
        key == getKey(ctx.tokenId, ctx.conversationId, ctx.accountId)
        got == StateCacheGet(w.cache, key, now)
        w1 == [w EXCEPT !.cache = got.cache]
    IN  IF ~IsSome(got.state) /\ hasProvider
        THEN [w |-> w1, f |-> [f EXCEPT !.pc = "awaitGet"]]
        ELSE Hydrated(w1, f, got.state)

\* lines 177-183: ctx.state || stateCache.get(...), then the provider
StartEvaluate(w, ctx) ==
    LET f == [IdleFrame EXCEPT !.ctx = ctx]
        key == getKey(ctx.tokenId, ctx.conversationId, ctx.accountId)
        got == IF IsSome(ctx.state)
               THEN [cache |-> w.cache, state |-> ctx.state]
               ELSE StateCacheGet(w.cache, key, now)
        w1 == [w EXCEPT !.cache = got.cache]
    IN  IF ~IsSome(got.state) /\ hasProvider
        THEN [w |-> w1, f |-> [f EXCEPT !.pc = "awaitGet"]]
        ELSE Hydrated(w1, f, got.state)

\* lines 238-247: the semantic stage once queryRules has resolved
AfterSemantic(w, f, ids, sim) ==
    LET rule == f.eligible[f.i]
    IN  IF rule.id \in ids
        THEN AfterStages(w, f, TRUE, Some(SemanticPattern(sim)), Some(sim))
        ELSE IF ~f.matched
        THEN RunRules(w, Advance(f))
        ELSE AfterStages(w, f, f.matched, f.matchedPattern, None)

\* a loop that goes on after a critical block
AfterUpdateNoBreak(w, f) ==
    LET rule == f.eligible[f.i]
        f1 == [f EXCEPT !.state = f.pending,
                        !.pending = None,
                        !.results = Append(@, Match(rule, Val(f.pending),
                                               f.matchedPattern, f.similarity))]
    IN  RunRules(w, Advance(f1))

\* lines 262-276: the call resumes with the state updateState returned
AfterUpdate(w, f) ==
    LET rule == f.eligible[f.i]
        f1 == [f EXCEPT !.state = f.pending,
                        !.pending = None,
                        !.results = Append(@, Match(rule, Val(f.pending),
                                               f.matchedPattern, f.similarity))]
    IN  IF rule.action = "block" /\ rule.severity = "critical"
        THEN FlushSaves(w, f1, 1)
        ELSE RunRules(w, Advance(f1))

(***************************************************************************)
(* Actions.                                                                *)
(***************************************************************************)
InitWith(scenario) ==
    /\ rules = <<>>
    /\ cache = <<>>
    /\ writeQueue = {}
    /\ timer = None
    /\ regexCache = {}
    /\ trackers = EmptyMap
    /\ hasProvider \in scenario.providers
    /\ hasMatcher \in scenario.matchers
    /\ store = [t \in Tuples |-> None]
    /\ now = 0
    /\ frames = [s \in Slots |-> IdleFrame]
    /\ kept = None
    /\ calls = 0
    /\ ticks = 0
    /\ sc = scenario

\* the engine and the frame of slot s become what a run r left
\* a shutdown that leaves the threshold counters
shutdownKeepingCounters(w) ==
    [w EXCEPT !.cache = <<>>, !.writeQueue = {}, !.regexCache = {}]

\* RulesEngine.shutdown: flushWrites and clear empty the write queue and the
\* cache, then the regex cache and the trackers are cleared; the batch timer
\* is not cancelled
shutdown(w) ==
    [w EXCEPT !.cache = <<>>, !.writeQueue = {}, !.regexCache = {},
              !.trackers = EmptyMap]

Becomes(s, r) ==
    /\ cache' = r.w.cache
    /\ writeQueue' = r.w.writeQueue
    /\ timer' = r.w.timer
    /\ regexCache' = r.w.regexCache
    /\ trackers' = r.w.trackers
    /\ frames' = [frames EXCEPT ![s] = r.f]

TupleOf(st) ==
    [tokenId |-> st.tokenId, conversationId |-> st.conversationId,
     accountId |-> st.accountId]

\* no call is in flight
Quiet == \A s \in Slots : frames[s].pc = "idle"

\* the caller may act: a sequential caller awaits each call before it goes on
CallerRuns == sc.sequential => Quiet

\* the calls that have not been handed back to the caller
InFlight == Cardinality({s \in Slots : frames[s].pc # "idle"})

\* timers and the clock wait for the microtask queue: a call resuming from
\* the await on updateState runs before any of them
MacrotaskRuns == \A s \in Slots : frames[s].pc # "awaitUpdate"

\* calls that work on the engine's own list: a load changes their rules
framesAfterLoadShared(fs, lib) ==
    [s \in DOMAIN fs |->
        IF fs[s].i > 0 /\ fs[s].pc \notin {"idle", "returned", "threw"}
        THEN [fs[s] EXCEPT !.eligible = loadRulesList(lib)]
        ELSE fs[s]]

\* the calls in flight after loadRules: each holds the array preFilterRules
\* made for it, and loadRules assigns a new array to this.rules
framesAfterLoad(fs, lib) == fs

\* engine.loadRules(lib); a host that reloads does so also while a call waits
\* for the provider or the matcher
LoadRules(lib) ==
    /\ \/ CallerRuns
       \/ sc.reloads /\ \E s \in Slots : frames[s].pc \in {"awaitGet", "awaitSemantic"}
    /\ rules' = loadRulesList(lib)
    /\ frames' = framesAfterLoad(frames, lib)
    /\ UNCHANGED <<cache, writeQueue, timer, regexCache, trackers, hasProvider,
                   hasMatcher, store, now, kept, calls, ticks, sc>>

\* engine.evaluate(ctx) is called and runs to its first suspension
Evaluate(s, t, message, supplied) ==
    /\ calls < MaxCalls
    /\ CallerRuns \/ InFlight < sc.overlap
    /\ frames[s].pc = "idle"
    /\ \A q \in 1..(s - 1) : frames[q].pc # "idle"
    /\ Becomes(s, StartEvaluate(World,
                   [tokenId |-> t.tokenId, conversationId |-> t.conversationId,
                    accountId |-> t.accountId, message |-> message,
                    state |-> supplied]))
    /\ calls' = calls + 1
    /\ UNCHANGED <<rules, hasProvider, hasMatcher, store, now, kept, ticks, sc>>

\* stateProvider.get resolves with the stored record or null
ProviderGetResolves(s) ==
    /\ frames[s].pc = "awaitGet"
    /\ Becomes(s, Hydrated(World, [frames[s] EXCEPT !.pc = "running"],
                           store[TupleOf(frames[s].ctx)]))
    /\ UNCHANGED <<rules, hasProvider, hasMatcher, store, now, kept, calls, ticks, sc>>

\* stateProvider.get rejects: nothing catches it, evaluate rejects
ProviderGetRejects(s) ==
    /\ frames[s].pc = "awaitGet"
    /\ frames' = [frames EXCEPT ![s].pc = "threw"]
    /\ UNCHANGED <<rules, cache, writeQueue, timer, regexCache, trackers,
                   hasProvider, hasMatcher, store, now, kept, calls, ticks, sc>>

\* semanticMatcher.queryRules resolves with matches for the rules in ids
QueryRulesResolves(s, ids, sim) ==
    /\ frames[s].pc = "awaitSemantic"
    /\ Becomes(s, AfterSemantic(World, [frames[s] EXCEPT !.pc = "running"], ids, sim))
    /\ UNCHANGED <<rules, hasProvider, hasMatcher, store, now, kept, calls, ticks, sc>>

\* queryRules without its catch: the error of the backend leaves it
queryRulesOnErrorUncaught == [rejected |-> TRUE, matches |-> {}]

\* LanceDBSemanticMatcher.queryRules when generateEmbedding or the search
\* throws: the catch logs the error and the promise resolves with []
queryRulesOnError == [rejected |-> FALSE, matches |-> {}]

\* the backend of LanceDBSemanticMatcher fails during queryRules
QueryRulesBackendFails(s) ==
    /\ frames[s].pc = "awaitSemantic"
    /\ IF queryRulesOnError.rejected
       THEN /\ frames' = [frames EXCEPT ![s].pc = "threw"]
            /\ UNCHANGED <<cache, writeQueue, timer, regexCache, trackers>>
       ELSE Becomes(s, AfterSemantic(World, [frames[s] EXCEPT !.pc = "running"],
                                     queryRulesOnError.matches, 0))
    /\ UNCHANGED <<rules, hasProvider, hasMatcher, store, now, kept, calls, ticks, sc>>

\* the promise of queryRules rejects (a SemanticMatcher that does not catch
\* its errors): nothing in evaluate catches it, evaluate rejects
QueryRulesRejects(s) ==
    /\ frames[s].pc = "awaitSemantic"
    /\ frames' = [frames EXCEPT ![s].pc = "threw"]
    /\ UNCHANGED <<rules, cache, writeQueue, timer, regexCache, trackers,
                   hasProvider, hasMatcher, store, now, kept, calls, ticks, sc>>

\* the await on updateState resumes
UpdateStateResumes(s) ==
    /\ frames[s].pc = "awaitUpdate"
    /\ Becomes(s, AfterUpdate(World, [frames[s] EXCEPT !.pc = "running"]))
    /\ UNCHANGED <<rules, hasProvider, hasMatcher, store, now, kept, calls, ticks, sc>>

\* stateProvider.save resolves: the provider holds the record
ProviderSaveResolves(s) ==
    /\ frames[s].pc = "awaitSave"
    /\ LET saved == Val(frames[s].results[frames[s].saveIdx].state)
       IN  store' = [store EXCEPT ![TupleOf(saved)] = Some(saved)]
    /\ Becomes(s, FlushSaves(World, [frames[s] EXCEPT !.pc = "running"],
                             frames[s].saveIdx + 1))
    /\ UNCHANGED <<rules, hasProvider, hasMatcher, now, kept, calls, ticks, sc>>

\* stateProvider.save rejects: nothing catches it, evaluate rejects
ProviderSaveRejects(s) ==
    /\ frames[s].pc = "awaitSave"
    /\ frames' = [frames EXCEPT ![s].pc = "threw"]
    /\ UNCHANGED <<rules, cache, writeQueue, timer, regexCache, trackers,
                   hasProvider, hasMatcher, store, now, kept, calls, ticks, sc>>

\* the caller receives the result list (or the rejection) and may keep the
\* state of one of the results to supply it as ctx.state later
Return(s) ==
    /\ frames[s].pc \in {"returned", "threw"}
    /\ kept' \in {kept} \cup
                 (IF frames[s].pc = "returned" /\ sc.supplies
                  THEN {frames[s].results[k].state : k \in 1..Len(frames[s].results)} \ {None}
                  ELSE {})
    /\ frames' = [frames EXCEPT ![s] = IdleFrame]
    /\ UNCHANGED <<rules, cache, writeQueue, timer, regexCache, trackers,
                   hasProvider, hasMatcher, store, now, calls, ticks, sc>>

\* the callback of scheduleBatchWrite: flushWrites, then the timer is null
TimerFires ==
    /\ MacrotaskRuns
    /\ IsSome(timer)
    /\ now >= Val(timer)
    /\ writeQueue' = {}
    /\ timer' = None
    /\ UNCHANGED <<rules, cache, regexCache, trackers, hasProvider, hasMatcher,
                   store, now, frames, kept, calls, ticks, sc>>

\* RulesEngine.getRuleCount
getRuleCount == Len(rules)

\* RulesEngine.getStats
getStats ==
    [rulesLoaded |-> Len(rules), cacheSize |-> Len(cache),
     regexCacheSize |-> Cardinality(regexCache)]

\* engine.shutdown()
Shutdown ==
    /\ CallerRuns
    /\ cache' = shutdown(World).cache
    /\ writeQueue' = shutdown(World).writeQueue
    /\ timer' = shutdown(World).timer
    /\ regexCache' = shutdown(World).regexCache
    /\ trackers' = shutdown(World).trackers
    /\ UNCHANGED <<rules, hasProvider, hasMatcher, store, now, frames,
                   kept, calls, ticks, sc>>

\* time passes
Tick(d) ==
    /\ ticks < MaxTicks
    /\ MacrotaskRuns
    /\ now' = now + d
    /\ ticks' = ticks + 1
    /\ UNCHANGED <<rules, cache, writeQueue, timer, regexCache, trackers,
                   hasProvider, hasMatcher, store, frames, kept, calls, sc>>

\* the rules the matcher can return: those with semantic patterns among the
\* rules on offer
IndexedIds ==
    {r.id : r \in {q \in UNION {{l[i] : i \in 1..Len(l)} : l \in sc.libs} :
                      q.id \in SemanticIds}}

Next ==
    \/ \E lib \in sc.libs : LoadRules(lib)
    \/ \E s \in Slots, t \in sc.tuples, m \in sc.messages,
          st \in (IF sc.supplies THEN {None, kept} ELSE {None}) :
          Evaluate(s, t, m, st)
    \/ \E s \in Slots : ProviderGetResolves(s)
    \/ \E s \in Slots : ProviderGetRejects(s)
    \/ \E s \in Slots, ids \in SUBSET IndexedIds, sim \in SimilarityValues :
          QueryRulesResolves(s, ids, sim)
    \/ \E s \in Slots : QueryRulesBackendFails(s)
    \/ \E s \in Slots : QueryRulesRejects(s)
    \/ \E s \in Slots : UpdateStateResumes(s)
    \/ \E s \in Slots : ProviderSaveResolves(s)
    \/ \E s \in Slots : ProviderSaveRejects(s)
    \/ \E s \in Slots : Return(s)
    \/ TimerFires
    \/ Shutdown
    \/ \E d \in sc.deltas : Tick(d)

\* sequential calls on one tuple: the multi-stage rules and a rate limit
ScenarioPhish ==
    [libs |-> {LibPhish},
     messages |-> {<<"V", "u">>, <<"u">>, <<"p">>, <<"b">>},
     tuples |-> {TupA},
     deltas |-> {300000},
     sequential |-> TRUE,
     supplies |-> FALSE,
     providers |-> BOOLEAN,
     matchers |-> BOOLEAN,
     reloads |-> FALSE,
     overlap |-> 1]

\* rules gated on a flag, a rule that unsets it, a critical block; the
\* engine is constructed with a semantic matcher
ScenarioGate ==
    [libs |-> {LibGate},
     messages |-> {<<"V">>, <<"x">>, <<"x", "k">>},
     tuples |-> {TupA},
     deltas |-> {300000},
     sequential |-> TRUE,
     supplies |-> TRUE,
     providers |-> BOOLEAN,
     matchers |-> {TRUE},
     reloads |-> FALSE,
     overlap |-> 1]

\* rate-limited rules and the passing of their windows
ScenarioRate ==
    [libs |-> {LibRate},
     messages |-> {<<"b">>, <<"V">>},
     tuples |-> {TupA},
     deltas |-> {5000, 300000},
     sequential |-> TRUE,
     supplies |-> FALSE,
     providers |-> BOOLEAN,
     matchers |-> BOOLEAN,
     reloads |-> FALSE,
     overlap |-> 1]

\* two distinct tuples
ScenarioIso ==
    [libs |-> {LibPhish},
     messages |-> {<<"V", "u">>},
     tuples |-> {TupA, TupC},
     deltas |-> {300000},
     sequential |-> TRUE,
     supplies |-> FALSE,
     providers |-> BOOLEAN,
     matchers |-> BOOLEAN,
     reloads |-> FALSE,
     overlap |-> 1]

\* calls on one tuple that overlap in time
ScenarioRace ==
    [libs |-> {LibRace},
     messages |-> {<<"V">>, <<"u">>},
     tuples |-> {TupA},
     deltas |-> {300000},
     sequential |-> FALSE,
     supplies |-> FALSE,
     providers |-> BOOLEAN,
     matchers |-> BOOLEAN,
     reloads |-> FALSE,
     overlap |-> 1]

\* keywords and regexes in both cases, two rule arrays with a disabled rule
ScenarioCase ==
    [libs |-> {LibAnd, LibOff},
     messages |-> {<<"V", "p">>, <<"v", "p">>, <<"V", "u">>, <<"v">>},
     tuples |-> {TupA},
     deltas |-> {300000},
     sequential |-> TRUE,
     supplies |-> FALSE,
     providers |-> BOOLEAN,
     matchers |-> BOOLEAN,
     reloads |-> FALSE,
     overlap |-> 1]

\* rules with a semantic stage before a rule that sets a flag; the engine
\* is constructed with a semantic matcher
ScenarioSem ==
    [libs |-> {LibSem},
     messages |-> {<<"V">>, <<"V", "u">>},
     tuples |-> {TupA},
     deltas |-> {300000},
     sequential |-> TRUE,
     supplies |-> FALSE,
     providers |-> BOOLEAN,
     matchers |-> {TRUE},
     reloads |-> FALSE,
     overlap |-> 1]

\* a rule whose pattern does not compile between other rules
ScenarioFault ==
    [libs |-> {LibCase, LibSem},
     messages |-> {<<"V">>, <<"V", "p">>},
     tuples |-> {TupA},
     deltas |-> {300000},
     sequential |-> TRUE,
     supplies |-> FALSE,
     providers |-> BOOLEAN,
     matchers |-> BOOLEAN,
     reloads |-> FALSE,
     overlap |-> 1]

\* a rate limit, a regex, a flag and a semantic stage in one rule array
ScenarioDet ==
    [libs |-> {LibDet},
     messages |-> {<<"b", "k">>, <<"V", "u">>},
     tuples |-> {TupA},
     deltas |-> {300000},
     sequential |-> TRUE,
     supplies |-> FALSE,
     providers |-> BOOLEAN,
     matchers |-> BOOLEAN,
     reloads |-> FALSE,
     overlap |-> 1]

\* two tuples with different keys in a cache of maxSize entries
ScenarioEvict ==
    [libs |-> {LibPhish},
     messages |-> {<<"V", "u">>},
     tuples |-> {TupA, TupB},
     deltas |-> {300000},
     sequential |-> TRUE,
     supplies |-> FALSE,
     providers |-> BOOLEAN,
     matchers |-> BOOLEAN,
     reloads |-> FALSE,
     overlap |-> 1]

\* one tuple and a short library, for the flush timer
ScenarioLive ==
    [libs |-> {LibRace},
     messages |-> {<<"V", "u">>},
     tuples |-> {TupA},
     deltas |-> {300000},
     sequential |-> TRUE,
     supplies |-> FALSE,
     providers |-> BOOLEAN,
     matchers |-> BOOLEAN,
     reloads |-> FALSE,
     overlap |-> 1]

\* rules that set and unset several flags, for the flag history
ScenarioHist ==
    [libs |-> {LibHist},
     messages |-> {<<"V", "u">>},
     tuples |-> {TupA},
     deltas |-> {5000, 300000},
     sequential |-> TRUE,
     supplies |-> FALSE,
     providers |-> BOOLEAN,
     matchers |-> BOOLEAN,
     reloads |-> FALSE,
     overlap |-> 1]

\* loads of two libraries while calls are in flight
ScenarioSwap ==
    [libs |-> {LibRace, LibOff},
     messages |-> {<<"V", "u">>},
     tuples |-> {TupA},
     deltas |-> {300000},
     sequential |-> TRUE,
     supplies |-> FALSE,
     providers |-> {TRUE},
     matchers |-> {TRUE},
     reloads |-> TRUE,
     overlap |-> 1]

\* up to two calls at a time on one tuple, each with a message that qualifies
\* for the threshold rule; loads and shutdowns come between the bursts
ScenarioBurst ==
    [libs |-> {LibBurst},
     messages |-> {<<"b", "u">>},
     tuples |-> {TupA},
     deltas |-> {300000},
     sequential |-> TRUE,
     supplies |-> FALSE,
     providers |-> {TRUE},
     matchers |-> {TRUE},
     reloads |-> FALSE,
     overlap |-> 2]

\* rules with a threshold of 1, of 3, and with only one of threshold and
\* window; the calls come inside one window or after its end
ScenarioCount ==
    [libs |-> {LibCount},
     messages |-> {<<"b", "u">>},
     tuples |-> {TupA},
     deltas |-> {300000},
     sequential |-> TRUE,
     supplies |-> FALSE,
     providers |-> {TRUE},
     matchers |-> {TRUE},
     reloads |-> FALSE,
     overlap |-> 1]

Init == InitWith(ScenarioPhish)
InitGate == InitWith(ScenarioGate)
InitRate == InitWith(ScenarioRate)
InitIso == InitWith(ScenarioIso)
InitRace == InitWith(ScenarioRace)
InitCase == InitWith(ScenarioCase)
InitSem == InitWith(ScenarioSem)
InitFault == InitWith(ScenarioFault)
InitDet == InitWith(ScenarioDet)
InitEvict == InitWith(ScenarioEvict)
InitLive == InitWith(ScenarioLive)
InitBurst == InitWith(ScenarioBurst)
InitSwap == InitWith(ScenarioSwap)
InitHist == InitWith(ScenarioHist)
InitCount == InitWith(ScenarioCount)

Spec == Init /\ [][Next]_vars
SpecGate == InitGate /\ [][Next]_vars
SpecRate == InitRate /\ [][Next]_vars
SpecIso == InitIso /\ [][Next]_vars
SpecRace == InitRace /\ [][Next]_vars
SpecCase == InitCase /\ [][Next]_vars
SpecSem == InitSem /\ [][Next]_vars
SpecFault == InitFault /\ [][Next]_vars
SpecDet == InitDet /\ [][Next]_vars
SpecEvict == InitEvict /\ [][Next]_vars
SpecCount == InitCount /\ [][Next]_vars
SpecBurst == InitBurst /\ [][Next]_vars
SpecSwap == InitSwap /\ [][Next]_vars
SpecHist == InitHist /\ [][Next]_vars

\* the event loop: a due timer is run and time passes; the microtask queue
\* is drained, so a call does not wait for ever in the await on updateState
Fairness ==
    /\ WF_vars(TimerFires)
    /\ WF_vars(\E d \in sc.deltas : Tick(d))
    /\ []<>MacrotaskRuns

SpecLive == InitLive /\ [][Next]_vars /\ Fairness

(***************************************************************************)
(* Properties.                                                             *)
(***************************************************************************)
NonEmpty(o) == IsSome(o) /\ Len(Val(o)) > 0

HasCheck(rule) == IsSome(rule.flags) /\ NonEmpty(Val(rule.flags).check)

\* the flags a rule sets
SetFlags(rule) ==
    IF IsSome(rule.flags) /\ IsSome(Val(rule.flags).set)
    THEN {Val(Val(rule.flags).set)[n] : n \in 1..Len(Val(Val(rule.flags).set))}
    ELSE {}

UnsetFlags(rule) ==
    IF IsSome(rule.flags) /\ IsSome(Val(rule.flags).unset)
    THEN {Val(Val(rule.flags).unset)[n] : n \in 1..Len(Val(Val(rule.flags).unset))}
    ELSE {}

CheckFlags(rule) ==
    IF HasCheck(rule)
    THEN {Val(Val(rule.flags).check)[n] : n \in 1..Len(Val(Val(rule.flags).check))}
    ELSE {}

\* a rule whose only stage is content and that has no threshold
ContentOnly(rule) ==
    /\ NonEmpty(rule.content)
    /\ ~NonEmpty(rule.pcre)
    /\ ~NonEmpty(rule.semantic)
    /\ ~IsSome(rule.threshold)

\* a rule with flags.check and no stage at all
PureStateful(rule) ==
    /\ HasCheck(rule)
    /\ ~NonEmpty(rule.content)
    /\ ~NonEmpty(rule.pcre)
    /\ ~NonEmpty(rule.semantic)

CriticalBlock(rule) == rule.action = "block" /\ rule.severity = "critical"

\* the priority key of the specification, section 4.1
ClaimedActionWeight(action) ==
    CASE action = "pass" -> 0
      [] action = "set_flag" -> 1
      [] action = "flag" -> 2
      [] action = "alert" -> 3
      [] action = "block" -> 4
      [] OTHER -> 5

ClaimedPriority(rule) == (ClaimedActionWeight(rule.action) * 10) + typeCost(rule)

\* C1: a rule with a non-empty flags.check fires only if every flag of
\* flags.check is true in the conversation state that is current when the
\* rule is evaluated (the state the pass holds just before the rule's own
\* update), also after earlier rules of the pass have unset flags.
C1_FlagGate ==
    \A s \in Slots :
        frames[s].pc = "awaitUpdate" =>
            Eligible(frames[s].eligible[frames[s].i], Val(frames[s].state))

\* C2: within one pass a later content-only rule that is gated on a flag an
\* earlier rule of the pass has just set, and whose keywords are in the
\* message, fires in that same pass (unless a critical block ended it).
C2_SamePassVisibility ==
    \A s \in Slots :
        frames[s].pc = "returned" =>
            \A k \in 1..Len(frames[s].results) :
            \A j \in 1..Len(rules) :
                LET f == frames[s]
                    res == f.results[k]
                    r == rules[j]
                IN  ( /\ res.matched
                      /\ \E j0 \in 1..(j - 1) : rules[j0] = res.rule
                      /\ ContentOnly(r)
                      /\ CheckFlags(r) \cap SetFlags(res.rule) # {}
                      /\ ContentMatches(r, f.ctx.message)
                      /\ Eligible(r, Val(res.state))
                      /\ Eligible(r, Val(f.state))
                      /\ \A k1 \in 1..Len(f.results) : ~CriticalBlock(f.results[k1].rule) )
                    => \E k2 \in (k + 1)..Len(f.results) : f.results[k2].rule.id = r.id

\* C4: with a semantic matcher configured, a rule that declares content or
\* pcre together with semantic produces a match only when the matcher
\* returned a result for the rule's id (the match carries its similarity).
C4_EveryDeclaredStage ==
    \A s \in Slots :
        \A k \in 1..Len(frames[s].results) :
            LET res == frames[s].results[k]
            IN  ( /\ res.matched
                  /\ hasMatcher
                  /\ NonEmpty(res.rule.semantic)
                  /\ (NonEmpty(res.rule.content) \/ NonEmpty(res.rule.pcre)) )
                => IsSome(res.similarity)

\* C5: a pure-stateful rule whose check flags are all true in the hydrated
\* state (so that it passed the pre-filter) and that the loop reached has a
\* result in the list evaluate returns.
C5_PureStateful ==
    \A s \in Slots :
        frames[s].pc = "returned" =>
            \A j \in 1..Len(frames[s].eligible) :
                (j < frames[s].i /\ PureStateful(frames[s].eligible[j]))
                => \E k \in 1..Len(frames[s].results) :
                      frames[s].results[k].rule.id = frames[s].eligible[j].id

\* C8: in every result list the rules appear in non-decreasing order of
\* the priority key of section 4.1 of the specification.
C8_PriorityOrdering ==
    \A s \in Slots :
        \A k \in 1..(Len(frames[s].results) - 1) :
            ClaimedPriority(frames[s].results[k].rule)
                <= ClaimedPriority(frames[s].results[k + 1].rule)

\* C9: the priority key computed for every loaded rule is
\* action_weight * 10 + type_cost with pass=0, set_flag=1, flag=2, alert=3,
\* block=4 and 5 for any other action.
C9_PriorityKey ==
    \A j \in 1..Len(rules) : getRulePriority(rules[j]) = ClaimedPriority(rules[j])

\* C10: a call for a tuple never reads the conversation state of a distinct
\* tuple: the state it hydrates from the cache or the provider is the
\* state of its own (tokenId, conversationId, accountId).
C10_Isolation ==
    \A s \in Slots :
        (IsSome(frames[s].hydrated) /\ ~IsSome(frames[s].ctx.state))
        => TupleOf(Val(frames[s].hydrated)) = TupleOf(frames[s].ctx)

\* the tracker entry of a rule under a key, if there is one
TrackerEntry(tr, key, id) ==
    IF key \in DOMAIN tr /\ id \in DOMAIN tr[key] THEN Some(tr[key][id]) ELSE None

\* the cache entry of a key that StateCache.get would return at time t
LiveEntry(c, key, t) ==
    IF IndexOfKey(c, key) # 0 /\ t - c[IndexOfKey(c, key)].lastAccess < ttl
    THEN Some(c[IndexOfKey(c, key)]) ELSE None

CtxKey(f) == getKey(f.ctx.tokenId, f.ctx.conversationId, f.ctx.accountId)

\* the call of slot s takes a step
Steps(s) == frames'[s] # frames[s]

\* in this step the rule at the loop position of slot s passed the threshold
\* check and updateState ran for it
Fires(s) ==
    /\ Steps(s)
    /\ frames'[s].pc = "awaitUpdate"

\* in this step the call of slot s emitted the matched=false result of r
Deferred(s, r) ==
    \E k \in (Len(frames[s].results) + 1)..Len(frames'[s].results) :
        frames'[s].results[k] = NonMatch(r)

\* the loop positions the call of slot s went through in this step
Visited(s) ==
    LET f == frames[s]
        g == frames'[s]
        first == CASE f.pc \in {"idle", "awaitGet"} -> 1
                   [] f.pc = "awaitUpdate" -> f.i + 1
                   [] OTHER -> f.i
        last == CASE g.pc = "awaitUpdate" -> g.i
                  [] g.pc \in {"awaitSemantic", "threw"} -> g.i - 1
                  [] OTHER -> Len(g.eligible)
    IN  IF Steps(s) /\ f.pc \in {"idle", "awaitGet", "awaitSemantic", "awaitUpdate"}
              /\ g.pc \notin {"idle", "awaitGet"}
        THEN first..last ELSE {}

\* the flag map after a rule fired on a state with the flags old
ExpectedFlags(old, rule) ==
    [n \in (DOMAIN old) \cup SetFlags(rule) \cup UnsetFlags(rule) |->
        IF n \in UnsetFlags(rule) THEN FALSE
        ELSE IF n \in SetFlags(rule) THEN TRUE
        ELSE old[n]]

NoneFired(f) == \A k \in 1..Len(f.results) : ~f.results[k].matched

\* the flags travel from call to call through the cache, and only a rule
\* that fires changes them
C3_FlagsCarry ==
    /\ \A s \in Slots :
          \* a call without ctx.state that finds its tuple cached hydrates
          \* exactly the cached state
          ( /\ frames[s].pc = "idle" /\ frames'[s].pc # "idle"
            /\ ~IsSome(frames'[s].ctx.state)
            /\ IsSome(LiveEntry(cache, CtxKey(frames'[s]), now)) )
          => frames'[s].hydrated =
                Some(Val(LiveEntry(cache, CtxKey(frames'[s]), now)).state)
    /\ \A s \in Slots :
          \* a rule that fires writes the flags it sets and unsets, keeps
          \* every other flag, and the result becomes the cached state
          (Fires(s) /\ IsSome(frames'[s].eligible[frames'[s].i].flags))
          => LET g == frames'[s]
                 rule == g.eligible[g.i]
             IN  /\ Val(g.pending).flags = ExpectedFlags(Val(g.state).flags, rule)
                 /\ IsSome(LiveEntry(cache', CtxKey(g), now))
                 /\ Val(LiveEntry(cache', CtxKey(g), now)).state = Val(g.pending)
    /\ \A s \in Slots :
          \* the state a pass holds changes only by taking over such an update
          (frames[s].pc \notin {"idle", "awaitGet"} /\ frames'[s].pc # "idle"
           /\ frames'[s].state # frames[s].state)
          => (frames[s].pc = "awaitUpdate" /\ frames'[s].state = frames[s].pending)
    /\ \A i \in 1..Len(cache) : \A j \in 1..Len(cache') :
          \* the flags of a cached tuple change in no other step
          ( /\ cache[i].key = cache'[j].key
            /\ now - cache[i].lastAccess < ttl
            /\ cache'[j].state.flags # cache[i].state.flags )
          => \E s \in Slots : Fires(s) /\ CtxKey(frames'[s]) = cache[i].key

\* eligibility in a call is decided on the hydrated state
C3_EligibleOnHydrated ==
    \A s \in Slots :
        IsSome(frames[s].hydrated) =>
            frames[s].eligible = preFilterRules(rules, Val(frames[s].hydrated))

\* a call in which no rule fires leaves the flags as it found them, in the
\* state it holds and in the entry the cache would return
C3_QuietCallKeepsFlags ==
    \A s \in Slots :
        (frames[s].pc = "returned" /\ NoneFired(frames[s])) =>
            /\ frames[s].state = frames[s].hydrated
            /\ IsSome(LiveEntry(cache, CtxKey(frames[s]), now)) =>
                  Val(LiveEntry(cache, CtxKey(frames[s]), now)).state.flags
                      = Val(frames[s].hydrated).flags

\* C3 as the specification states it: a flag set by a rule fired in one call
\* is true in the hydrated state of the later calls on the cached tuple until
\* a fired rule unsets it, rules gated on it become eligible, and a call in
\* which no rule fires returns an empty list and leaves the flags unchanged.
C3_FlagMachineAsStated ==
    /\ [](C3_EligibleOnHydrated /\ C3_QuietCallKeepsFlags)
    /\ [](\A s \in Slots :
            (frames[s].pc = "returned" /\ NoneFired(frames[s]))
                => frames[s].results = <<>>)
    /\ [][C3_FlagsCarry]_vars

\* C3, amended: as above, but a call in which no rule fires returns no
\* matched=true result: its list holds exactly the matched=false results of
\* the rules held back by their threshold, each with its reason, and the
\* flags are unchanged.
C3_FlagMachine ==
    /\ [](C3_EligibleOnHydrated /\ C3_QuietCallKeepsFlags)
    /\ [](\A s \in Slots :
            (frames[s].pc = "returned" /\ NoneFired(frames[s]))
                => \A k \in 1..Len(frames[s].results) :
                      /\ frames[s].results[k] = NonMatch(frames[s].results[k].rule)
                      /\ TruthyNum(frames[s].results[k].rule.threshold)
                      /\ Val(frames[s].results[k].rule.threshold) > 1)
    /\ [][C3_FlagsCarry]_vars

\* the third call of the scenario: s1 and s2 come from the cache, the rule
\* gated on s2 unsets s1 and R3 fires with action block
C3_ThirdCallBlocks ==
    \E s \in Slots :
        /\ frames[s].pc = "returned"
        /\ ~hasProvider
        /\ ~IsSome(frames[s].ctx.state)
        /\ FlagTrue(Val(frames[s].hydrated), "s1")
        /\ FlagTrue(Val(frames[s].hydrated), "s2")
        /\ ~FlagTrue(Val(frames[s].state), "s1")
        /\ \E k \in 1..Len(frames[s].results) :
              /\ frames[s].results[k].matched
              /\ frames[s].results[k].rule.id = "R3"
              /\ frames[s].results[k].action = Some("block")

\* rules with a content stage only, a threshold of at least 2 and a window
RateLimited(rule) ==
    /\ NonEmpty(rule.content)
    /\ ~NonEmpty(rule.pcre)
    /\ ~NonEmpty(rule.semantic)
    /\ TruthyNum(rule.threshold) /\ Val(rule.threshold) >= 2
    /\ TruthyNum(rule.window)

\* in this step the call of slot s made a qualifying evaluation of r: the
\* loop went through r, an eligible rule, and the message passed its stage
Qualifies(s, r) ==
    \E j \in Visited(s) :
        /\ frames'[s].eligible[j] = r
        /\ ContentMatches(r, frames'[s].ctx.message)

\* in this step r passed the threshold check in the call of slot s
Passes(s, r) == Fires(s) /\ frames'[s].eligible[frames'[s].i] = r

\* one qualifying evaluation moves the counter of the rule as the threshold
\* check prescribes, and no other step of a call moves it
C6_CounterStep ==
    \A s \in Slots : \A j \in 1..Len(rules) :
        LET r == rules[j]
            key == CtxKey(frames'[s])
            e == TrackerEntry(trackers, key, r.id)
            e2 == TrackerEntry(trackers', key, r.id)
            N == Val(r.threshold)
            W == Val(r.window)
        IN  RateLimited(r) =>
              /\ Qualifies(s, r) <=> (Deferred(s, r) \/ Passes(s, r))
              /\ Qualifies(s, r) =>
                    IF ~IsSome(e) \/ now > Val(e).windowEnd
                    THEN /\ Deferred(s, r)
                         /\ e2 = Some([count |-> 1, firstMatch |-> now,
                                       windowEnd |-> now + (W * 1000)])
                    ELSE IF Val(e).count + 1 < N
                    THEN /\ Deferred(s, r)
                         /\ e2 = Some([Val(e) EXCEPT !.count = @ + 1])
                    ELSE /\ Passes(s, r)
                         /\ e2 = None
              /\ (Steps(s) /\ ~Qualifies(s, r) /\ frames'[s].pc # "idle") => e2 = e
              /\ Deferred(s, r) =>
                    \E k \in 1..Len(frames'[s].results) :
                        /\ frames'[s].results[k].rule = r
                        /\ ~frames'[s].results[k].matched
                        /\ frames'[s].results[k].reason =
                              Some(<<"Threshold not met (", N, " in ", W, "s)">>)

\* the counters change only in a step of a call, or are all cleared
C6_OnlyCallsCount ==
    trackers' # trackers =>
        \/ \E s \in Slots : Steps(s) /\ frames'[s].pc # "idle"
        \/ trackers' = EmptyMap

\* a counter in its window stands for fewer than N qualifying evaluations
C6_CounterBelowThreshold ==
    \A key \in DOMAIN trackers : \A id \in DOMAIN trackers[key] :
        \A j \in 1..Len(rules) :
            rules[j].id = id =>
                /\ trackers[key][id].count >= 1
                /\ trackers[key][id].count < Val(rules[j].threshold)
                /\ trackers[key][id].windowEnd =
                      trackers[key][id].firstMatch + (Val(rules[j].window) * 1000)

\* a rule that passed the threshold check is reported with matched=true
C6_PassIsMatch ==
    \A s \in Slots :
        (frames[s].pc = "awaitUpdate" /\ Steps(s)) =>
            /\ Len(frames'[s].results) > Len(frames[s].results)
            /\ frames'[s].results[Len(frames[s].results) + 1].matched
            /\ frames'[s].results[Len(frames[s].results) + 1].rule
                  = frames[s].eligible[frames[s].i]

BlockedCritically(f) ==
    \E k \in 1..Len(f.results) :
        f.results[k].matched /\ CriticalBlock(f.results[k].rule)

\* the match of a critical block ends the result list and the loop stays
\* on its rule
C7_BlockIsLast ==
    \A s \in Slots : \A k \in 1..Len(frames[s].results) :
        (frames[s].results[k].matched /\ CriticalBlock(frames[s].results[k].rule))
        => /\ k = Len(frames[s].results)
           /\ frames[s].pc \in {"awaitSave", "returned", "threw"}
           /\ frames[s].i \in 1..Len(frames[s].eligible)
           /\ frames[s].eligible[frames[s].i] = frames[s].results[k].rule

\* after the match of a critical block the call evaluates nothing more: its
\* steps leave the cache, the counters, the compiled patterns, the state it
\* holds and its results as they are
C7_NothingAfterBlock ==
    \A s \in Slots :
        (BlockedCritically(frames[s]) /\ Steps(s)) =>
            /\ cache' = cache
            /\ trackers' = trackers
            /\ regexCache' = regexCache
            /\ writeQueue' = writeQueue
            /\ frames'[s].pc # "idle" =>
                  /\ frames'[s].results = frames[s].results
                  /\ frames'[s].state = frames[s].state
                  /\ frames'[s].i = frames[s].i

\* C7: a rule with action=block and severity=critical that fires is the
\* last element of the result list, and no rule after it is evaluated,
\* counted by the threshold tracker or allowed to change state in the pass.
C7_EarlyExit ==
    /\ []C7_BlockIsLast
    /\ [][C7_NothingAfterBlock]_vars

\* K1 has fired on a message that also holds the keyword of G1, a rule that
\* comes after K1 and is eligible in the call
C7_BlockBeforeEligibleRule ==
    \E s \in Slots :
        /\ frames[s].pc = "returned"
        /\ BlockedCritically(frames[s])
        /\ \E j \in (frames[s].i + 1)..Len(frames[s].eligible) :
              /\ NonEmpty(frames[s].eligible[j].content)
              /\ ContentMatches(frames[s].eligible[j], frames[s].ctx.message)

\* evaluate is called in slot s in this step, without ctx.state
CallStarts(s) ==
    /\ frames[s].pc = "idle"
    /\ frames'[s].pc # "idle"
    /\ ~IsSome(frames'[s].ctx.state)

\* a call that starts while a call q on the same tuple is suspended at the
\* provider or at the matcher hydrates the state q hydrated or has made of it
C11_SecondSharesFirst ==
    \A s \in Slots : \A q \in Slots \ {s} :
        ( /\ CallStarts(s)
          /\ frames[q].pc \in {"awaitGet", "awaitSemantic"}
          /\ ~IsSome(frames[q].ctx.state)
          /\ TupleOf(frames[q].ctx) = TupleOf(frames'[s].ctx) )
        => /\ frames'[s].pc # "awaitGet"
           /\ IsSome(frames'[s].hydrated)
           /\ frames'[s].hydrated \in {frames[q].hydrated, frames[q].state}

\* C11: two evaluate calls for the same tuple that overlap in time, without
\* ctx.state, observe the same hydrated state: the state of the first is in
\* the cache before the second hydrates, so the second neither loads nor
\* synthesizes a state of its own.
C11_SharedHydration == [][C11_SecondSharesFirst]_vars

\* a rule that fires in a call without ctx.state applies its flags to the
\* flags the cache holds for the tuple
C12_WriteOnLatest ==
    \A s \in Slots :
        ( /\ Fires(s)
          /\ ~IsSome(frames'[s].ctx.state)
          /\ IsSome(frames'[s].eligible[frames'[s].i].flags)
          /\ IsSome(LiveEntry(cache, CtxKey(frames'[s]), now)) )
        => /\ IsSome(LiveEntry(cache', CtxKey(frames'[s]), now))
           /\ Val(LiveEntry(cache', CtxKey(frames'[s]), now)).state.flags =
                 ExpectedFlags(Val(LiveEntry(cache, CtxKey(frames'[s]), now)).state.flags,
                               frames'[s].eligible[frames'[s].i])

\* a step in which no rule fires leaves the flags the cache holds as they are
C12_NoOtherWrite ==
    \A i \in 1..Len(cache) : \A j \in 1..Len(cache') :
        ( /\ cache[i].key = cache'[j].key
          /\ now - cache[i].lastAccess < ttl
          /\ cache'[j].state.flags # cache[i].state.flags )
        => \E s \in Slots : Fires(s) /\ CtxKey(frames'[s]) = cache[i].key

\* C12: the cache always reflects the latest mutation: every flag write of a
\* fired rule is applied to the flags cached for the tuple, in application
\* order, and no write is lost to a state derived from an older snapshot.
C12_LatestMutation == [][C12_WriteOnLatest /\ C12_NoOtherWrite]_vars

\* the number of flag writes a rule makes when it fires
WriteCount(rule) ==
    (IF IsSome(rule.flags) /\ IsSome(Val(rule.flags).set)
     THEN Len(Val(Val(rule.flags).set)) ELSE 0) +
    (IF IsSome(rule.flags) /\ IsSome(Val(rule.flags).unset)
     THEN Len(Val(Val(rule.flags).unset)) ELSE 0)

\* while a call goes on, the results it has emitted, the state it hydrated
\* and the context it was given stay as they are
C13_EmittedStatesStay ==
    \A s \in Slots :
        (frames[s].pc # "idle" /\ frames'[s].pc # "idle") =>
            /\ Len(frames'[s].results) >= Len(frames[s].results)
            /\ \A k \in 1..Len(frames[s].results) :
                  frames'[s].results[k] = frames[s].results[k]
            /\ IsSome(frames[s].hydrated) => frames'[s].hydrated = frames[s].hydrated
            /\ frames[s].pc # "awaitGet" => frames'[s].ctx = frames[s].ctx

\* a rule that fires writes to a new record: the state the pass held is
\* still held as it was, and the new history is the old one followed by one
\* entry per flag written
C13_WritesToCopy ==
    \A s \in Slots :
        (Fires(s) /\ IsSome(frames'[s].eligible[frames'[s].i].flags)) =>
            LET g == frames'[s]
                rule == g.eligible[g.i]
                old == Val(g.state)
                new == Val(g.pending)
            IN  /\ frames[s].pc \notin {"idle", "awaitGet"} =>
                      g.state = (IF frames[s].pc = "awaitUpdate"
                                 THEN frames[s].pending ELSE frames[s].state)
                /\ Len(new.flagHistory) = Len(old.flagHistory) + WriteCount(rule)
                /\ SubSeq(new.flagHistory, 1, Len(old.flagHistory)) = old.flagHistory
                /\ \A k \in (Len(old.flagHistory) + 1)..Len(new.flagHistory) :
                      /\ new.flagHistory[k].ruleId = rule.id
                      /\ new.flagHistory[k].timestamp = now

ClaimedFlagTtl(rule) ==
    IF IsSome(rule.flags) /\ TruthyNum(Val(rule.flags).ttl)
    THEN Val(Val(rule.flags).ttl) ELSE 86400

\* the call of slot s has stored a new record for the rule that fired
StoredOnFire(s) ==
    LET g == frames'[s]
        rule == g.eligible[g.i]
        key == CtxKey(g)
        idx == IndexOfKey(cache', key)
    IN  /\ IsSome(g.pending)
        /\ Val(g.pending).updatedAt = now
        /\ Val(g.pending).expiresAt = now + (ClaimedFlagTtl(rule) * 1000)
        /\ idx # 0
        /\ cache'[idx].state = Val(g.pending)
        /\ cache'[idx].dirty
        /\ key \in writeQueue'
        /\ IsSome(timer')

\* when the call resumes, the record is the state of the pass and of the
\* result
C14_RecordIsCarried ==
    \A s \in Slots :
        (frames[s].pc = "awaitUpdate" /\ Steps(s)) =>
            /\ frames'[s].state = frames[s].pending
            /\ Len(frames'[s].results) > Len(frames[s].results)
            /\ frames'[s].results[Len(frames[s].results) + 1].state = frames[s].pending

\* C14 as the specification states it: whenever a rule fires, a new state
\* record with updated_at = now and expires_at = now + (flags.ttl or 86400)
\* * 1000 is stored in the cache under the tuple, the tuple is marked dirty,
\* and the record is the state of the later rules and of the result.
C14_MutationOnFireAsStated ==
    [][(\A s \in Slots : Fires(s) => StoredOnFire(s)) /\ C14_RecordIsCarried]_vars

\* C14, amended: that holds whenever a rule that declares flags fires; a
\* rule without flags fires with the state the pass already holds, and
\* neither the write queue nor the flush timer changes.
C14_MutationOnFire ==
    [][ /\ \A s \in Slots :
              (Fires(s) /\ IsSome(frames'[s].eligible[frames'[s].i].flags))
                  => StoredOnFire(s)
        /\ \A s \in Slots :
              (Fires(s) /\ ~IsSome(frames'[s].eligible[frames'[s].i].flags))
                  => /\ frames'[s].pending = frames'[s].state
                     /\ writeQueue' = writeQueue
                     /\ timer' = timer
        /\ C14_RecordIsCarried ]_vars

\* F1, with flags.ttl = 60, has fired after the clock has advanced
C14_FiredWithTtl ==
    \E s \in Slots :
        /\ frames[s].pc = "awaitUpdate"
        /\ frames[s].eligible[frames[s].i].id = "F1"
        /\ now > 0
        /\ Val(frames[s].pending).expiresAt = now + 60000
        /\ Val(frames[s].pending).updatedAt = now
        /\ CtxKey(frames[s]) \in writeQueue

\* a matched=false result carries the rule and the reason, no action and no
\* state, and its rule has a threshold
C15_NonMatchShape ==
    \A s \in Slots : \A k \in 1..Len(frames[s].results) :
        ~frames[s].results[k].matched =>
            /\ TruthyNum(frames[s].results[k].rule.threshold)
            /\ IsSome(frames[s].results[k].reason)
            /\ frames[s].results[k].action = None
            /\ frames[s].results[k].state = None

\* in this step the call of slot s reported r, a rule with a threshold and a
\* window, with matched=false
Gated(s, r) ==
    TruthyNum(r.threshold) /\ TruthyNum(r.window) /\ Deferred(s, r)

\* a rule reported matched=false has passed its content and pcre stages,
\* and a rate-limited rule that qualifies without passing the threshold
\* check is reported
C15_AfterEveryStage ==
    \A s \in Slots : \A j \in 1..Len(rules) :
        LET r == rules[j]
        IN  /\ Gated(s, r) =>
                /\ NonEmpty(r.content) => ContentMatches(r, frames'[s].ctx.message)
                /\ NonEmpty(r.pcre) =>
                      \A n \in 1..Len(Val(r.pcre)) :
                          IsSome(RegexExec(Val(r.pcre)[n],
                                           IF NoCase(r) THEN "gi" ELSE "g",
                                           frames'[s].ctx.message))
            /\ (RateLimited(r) /\ Qualifies(s, r) /\ ~Passes(s, r)) => Deferred(s, r)

\* a rule whose semantic stage failed (the matcher returned nothing for it)
\* is not reported
C15_NotAfterFailedSemantic ==
    \A s \in Slots : \A ids \in SUBSET IndexedIds : \A sim \in SimilarityValues :
        ( /\ QueryRulesResolves(s, ids, sim)
          /\ frames[s].eligible[frames[s].i].id \notin ids )
        => ~Gated(s, frames[s].eligible[frames[s].i])

\* a step of a call in which no rule fires leaves the state of the pass, the
\* cache and the write queue as they are
C15_GateKeepsState ==
    \A s \in Slots :
        /\ (Steps(s) /\ ~Fires(s) /\ frames[s].pc \in {"awaitSemantic", "awaitUpdate"}) =>
              /\ cache' = cache
              /\ writeQueue' = writeQueue
              /\ frames'[s].state = (IF frames[s].pc = "awaitUpdate"
                                     THEN frames[s].pending ELSE frames[s].state)
        /\ (Steps(s) /\ ~Fires(s) /\ frames[s].pc \in {"idle", "awaitGet"}
              /\ frames'[s].pc \notin {"idle", "awaitGet", "threw"}) =>
              /\ writeQueue' = writeQueue
              /\ frames'[s].state = frames'[s].hydrated

\* C15: a matched=false result is emitted exactly when a rule passed every
\* declared stage but the threshold tracker returned false; it carries the
\* rule and a reason, no action and no state, and that rule leaves the
\* conversation state, the cache and the dirty set unchanged.
C15_ThresholdGate ==
    /\ []C15_NonMatchShape
    /\ [][C15_AfterEveryStage /\ C15_NotAfterFailedSemantic /\ C15_GateKeepsState]_vars

\* two letters that differ in case only
CaseTwin(a, b) ==
    \/ <<a, b>> \in {<<"V", "v">>, <<"U", "u">>, <<"P", "p">>, <<"B", "b">>, <<"X", "x">>}
    \/ <<b, a>> \in {<<"V", "v">>, <<"U", "u">>, <<"P", "p">>, <<"B", "b">>, <<"X", "x">>}

\* text occurs in message, letter for letter, or up to case when fold
Occurs(text, message, fold) ==
    \E off \in 0..(Len(message) - Len(text)) :
        \A n \in 1..Len(text) :
            \/ message[off + n] = text[n]
            \/ fold /\ CaseTwin(message[off + n], text[n])

\* nocase is true or unset
Folds(rule) == ~IsSome(rule.nocase) \/ Val(rule.nocase) = TRUE

\* every keyword and every pattern of the rule occurs in the message
AllOccur(rule, message) ==
    /\ NonEmpty(rule.content) =>
          \A n \in 1..Len(Val(rule.content)) :
              Occurs(Val(rule.content)[n], message, Folds(rule))
    /\ NonEmpty(rule.pcre) =>
          \A n \in 1..Len(Val(rule.pcre)) :
              Occurs(Val(rule.pcre)[n].text, message, Folds(rule))

\* a rule with content or pcre and neither semantic patterns nor a threshold
StagedOnly(rule) ==
    /\ NonEmpty(rule.content) \/ NonEmpty(rule.pcre)
    /\ ~NonEmpty(rule.semantic)
    /\ ~TruthyNum(rule.threshold)
    /\ \A n \in 1..(IF NonEmpty(rule.pcre) THEN Len(Val(rule.pcre)) ELSE 0) :
          Val(rule.pcre)[n].valid

\* C16: AND semantics with case normalisation: a rule matches iff every
\* keyword of content is a substring of the message (up to case unless
\* nocase=false) and every pattern of pcre has a match; if a keyword or a
\* pattern is missing, the rule emits no result at all.
C16_AndSemantics ==
    \A s \in Slots :
        frames[s].pc = "returned" =>
            \A j \in 1..Len(frames[s].eligible) :
                LET r == frames[s].eligible[j]
                    hits == {k \in 1..Len(frames[s].results) :
                                frames[s].results[k].rule = r}
                IN  StagedOnly(r) =>
                      /\ AllOccur(r, frames[s].ctx.message) =>
                            \E k \in hits : frames[s].results[k].matched
                      /\ ~AllOccur(r, frames[s].ctx.message) => hits = {}

\* on "Vu" the two regexes of P2 match up to case, while N2 has its keyword
\* and its first regex but not its second, and M1 has one keyword of two
C16_MixedCaseMessage ==
    \E s \in Slots :
        /\ frames[s].pc = "returned"
        /\ frames[s].ctx.message = <<"V", "u">>
        /\ \E j \in 1..Len(frames[s].eligible) : frames[s].eligible[j] = N2
        /\ \E j \in 1..Len(frames[s].eligible) : frames[s].eligible[j] = M1
        /\ \E k \in 1..Len(frames[s].results) :
              frames[s].results[k].rule = P2 /\ frames[s].results[k].matched
        /\ \A k \in 1..Len(frames[s].results) :
              frames[s].results[k].rule \notin {N2, M1}

\* the enabled rules of an array
EnabledOf(lib) == {lib[i] : i \in {n \in 1..Len(lib) : lib[n].enabled}}

\* the loaded rules and the results hold enabled rules only, and the counts
\* are the number of loaded rules
C17_OnlyEnabled ==
    /\ \A j \in 1..Len(rules) : rules[j].enabled
    /\ \A s \in Slots : \A k \in 1..Len(frames[s].results) :
          frames[s].results[k].rule.enabled
    /\ getRuleCount = Cardinality({rules[j] : j \in 1..Len(rules)})
    /\ getStats.rulesLoaded = getRuleCount

\* loadRules leaves exactly the enabled rules of its argument, and nothing
\* else changes the loaded rules
C17_LastArray ==
    /\ \A lib \in sc.libs :
          LoadRules(lib) =>
              /\ {rules'[j] : j \in 1..Len(rules')} = EnabledOf(lib)
              /\ Len(rules') = Cardinality(EnabledOf(lib))
    /\ rules' # rules => \E lib \in sc.libs : LoadRules(lib)

\* C17: after any sequence of loadRules calls the loaded rules are exactly
\* the enabled rules of the last array passed, getRuleCount and
\* stats.rulesLoaded are their number, and a disabled rule never appears in
\* a result.
C17_DisabledRules ==
    /\ []C17_OnlyEnabled
    /\ [][C17_LastArray]_vars

\* the array with D1, P2 and S2 is loaded and a call has returned a result
\* on a message that holds the keyword of the disabled D1
C17_DisabledSkipped ==
    \E s \in Slots :
        /\ frames[s].pc = "returned"
        /\ {rules[j] : j \in 1..Len(rules)} = {P2, S2}
        /\ getRuleCount = 2
        /\ ContentMatches(D1, frames[s].ctx.message)
        /\ frames[s].results # <<>>
        /\ \A k \in 1..Len(frames[s].results) : frames[s].results[k].rule.id # "D1"

\* the flags that are true in a state
TrueFlags(state) == {n \in DOMAIN state.flags : state.flags[n] = TRUE}

\* the rule is not gated, or every flag it checks is true in the state
GateOpen(rule, state) == CheckFlags(rule) \subseteq TrueFlags(state)

\* a call with ctx.state starts on that state: it does not wait for the
\* provider, does not touch the cache unless a rule fires, and its eligible
\* rules are the loaded rules whose gate is open in the supplied state
C18_StartsOnSupplied ==
    \A s \in Slots :
        ( /\ frames[s].pc = "idle" /\ frames'[s].pc # "idle"
          /\ IsSome(frames'[s].ctx.state) )
        => /\ frames'[s].pc # "awaitGet"
           /\ frames'[s].hydrated = frames'[s].ctx.state
           /\ frames'[s].eligible =
                 SelectSeq(rules, LAMBDA r : GateOpen(r, Val(frames'[s].ctx.state)))
           /\ ~Fires(s) => cache' = cache

\* C18: when ctx.state is supplied, evaluate neither reads the State Cache
\* nor calls provider.get for that call, and eligibility is decided from
\* exactly the supplied state's flags.
C18_StateOverride == [][C18_StartsOnSupplied]_vars

\* a state with s1 true is fed back in while the provider holds a record of
\* the tuple in which s1 is not true: G1, gated on s1, fires
C18_FedBackStateGates ==
    \E s \in Slots :
        /\ IsSome(frames[s].ctx.state)
        /\ FlagTrue(Val(frames[s].ctx.state), "s1")
        /\ hasProvider
        /\ IsSome(store[TupleOf(frames[s].ctx)])
        /\ ~FlagTrue(Val(store[TupleOf(frames[s].ctx)]), "s1")
        /\ \E k \in 1..Len(frames[s].results) :
              frames[s].results[k].matched /\ frames[s].results[k].rule.id = "G1"

\* the provider is asked only when the cache has no live entry of the tuple
C19_OnlyOnMiss ==
    \A s \in Slots :
        (CallStarts(s) /\ frames'[s].pc = "awaitGet")
            => ~IsSome(LiveEntry(cache, CtxKey(frames'[s]), now))

\* a state hydrated without ctx.state, loaded or synthesized, is in the
\* cache once the call has hydrated it
C19_HydratedIsCached ==
    \A s \in Slots :
        ( /\ Steps(s)
          /\ ~IsSome(frames[s].hydrated) /\ IsSome(frames'[s].hydrated)
          /\ ~IsSome(frames'[s].ctx.state) )
        => IsSome(LiveEntry(cache', CtxKey(frames'[s]), now))

\* C19: at-most-once hydration: the provider is consulted only on a cache
\* miss, and a state that has been hydrated (loaded through provider.get or
\* synthesized) is held in the cache, so that later calls on the tuple
\* within the TTL do not call provider.get again.
C19_HydrateOnce == [][C19_OnlyOnMiss /\ C19_HydratedIsCached]_vars

\* C20: provider read errors are non-fatal: a call whose stateProvider.get
\* fails goes on with a synthesized state, so no call is rejected before it
\* has hydrated a state.
C20_ReadErrorsNonFatal ==
    \A s \in Slots : frames[s].pc = "threw" => IsSome(frames[s].hydrated)

\* C21: provider write errors are non-fatal: a call waiting on
\* stateProvider.save goes on to the next save or returns, with the results
\* of the pass as they are, whether the save succeeds or fails; it never
\* rejects.
C21_WriteErrorsNonFatal ==
    [][\A s \in Slots :
          frames[s].pc = "awaitSave" =>
              /\ frames'[s].pc \in {"awaitSave", "returned"}
              /\ frames'[s].results = frames[s].results]_vars

\* the results f holds are the first results of g
Extends(f, g) ==
    /\ Len(g.results) >= Len(f.results)
    /\ SubSeq(g.results, 1, Len(f.results)) = f.results

\* a failure of the semantic backend is answered like an empty list of
\* matches: the call does not reject, the rule gets no semantic match, and a
\* rule that no earlier stage matched gets no result
C22_TreatedAsNoMatch ==
    \A s \in Slots :
        QueryRulesBackendFails(s) =>
            LET f == frames[s]
                g == frames'[s]
                rule == f.eligible[f.i]
            IN  /\ g.pc # "threw"
                /\ QueryRulesResolves(s, {}, 900)
                /\ \A k \in 1..Len(g.results) :
                      g.results[k].rule.id = rule.id =>
                          /\ ~IsSome(g.results[k].similarity)
                          /\ f.matched
                /\ (g.pc = "awaitUpdate" /\ g.i = f.i) =>
                      /\ f.matched
                      /\ ~IsSome(g.similarity)

\* after the failure the call goes on with the rules that remain: it keeps
\* the results it had and the rules it was going through, and it is at the
\* same rule, now firing, at a later rule, or past the last one
C22_GoesOn ==
    \A s \in Slots :
        QueryRulesBackendFails(s) =>
            LET f == frames[s]
                g == frames'[s]
            IN  /\ Extends(f, g)
                /\ g.eligible = f.eligible
                /\ \/ g.pc = "awaitUpdate" /\ g.i >= f.i
                   \/ g.pc = "awaitSemantic" /\ g.i > f.i
                   \/ g.pc \in {"awaitSave", "returned"} /\ g.i >= f.i

HasBadPattern(rule) ==
    /\ NonEmpty(rule.pcre)
    /\ \E n \in 1..Len(Val(rule.pcre)) : ~Val(rule.pcre)[n].valid

\* a call ends with an exception only when a promise of the provider or of
\* the matcher rejects
C23_NoThrow ==
    \A s \in Slots :
        (Steps(s) /\ frames'[s].pc = "threw") =>
            \/ ProviderGetRejects(s)
            \/ QueryRulesRejects(s)
            \/ ProviderSaveRejects(s)

\* a rule with a pattern that does not compile, when the loop goes through
\* it, gets a matched=false result with a reason
C23_Diagnostic ==
    \A s \in Slots : \A i \in Visited(s) :
        HasBadPattern(frames'[s].eligible[i]) =>
            \E k \in (Len(frames[s].results) + 1)..Len(frames'[s].results) :
                /\ frames'[s].results[k].rule = frames'[s].eligible[i]
                /\ ~frames'[s].results[k].matched
                /\ IsSome(frames'[s].results[k].reason)

\* C23: an invalid regex is a per-rule error: a rule whose pcre pattern does
\* not compile is skipped with a diagnostic result, the other rules of the
\* pass are still evaluated, and evaluate does not throw.
C23_InvalidRegexPerRule == [][C23_NoThrow /\ C23_Diagnostic]_vars

\* evaluate run to its end on the engine of r: every promise resolves and
\* the matcher answers with matches for the rules in ids
RECURSIVE Finish(_, _)
Finish(r, ids) ==
    CASE r.f.pc = "awaitGet" ->
             Finish(Hydrated(r.w, r.f, store[TupleOf(r.f.ctx)]), ids)
      [] r.f.pc = "awaitSemantic" ->
             Finish(AfterSemantic(r.w, r.f, ids, 900), ids)
      [] r.f.pc = "awaitUpdate" ->
             Finish(AfterUpdate(r.w, r.f), ids)
      [] r.f.pc = "awaitSave" ->
             Finish(FlushSaves(r.w, r.f, r.f.saveIdx + 1), ids)
      [] OTHER -> r

\* a state without its timestamps
Timeless(state) ==
    [id |-> state.id, tokenId |-> state.tokenId,
     conversationId |-> state.conversationId, accountId |-> state.accountId,
     flags |-> state.flags,
     flagHistory |-> [n \in 1..Len(state.flagHistory) |->
                         [flag |-> state.flagHistory[n].flag,
                          action |-> state.flagHistory[n].action,
                          ruleId |-> state.flagHistory[n].ruleId]]]

\* what the caller gets from evaluate(ctx) on the engine w: how the call
\* ended and its results without timestamps
Outcome(w, ctx, ids) ==
    LET r == Finish(StartEvaluate(w, ctx), ids)
    IN  [pc |-> r.f.pc,
         results |-> [k \in 1..Len(r.f.results) |->
                         [r.f.results[k] EXCEPT
                             !.state = IF IsSome(@) THEN Some(Timeless(Val(@)))
                                       ELSE None]]]

\* the engine as constructed
FreshWorld ==
    [cache |-> <<>>, writeQueue |-> {}, timer |-> None, regexCache |-> {},
     trackers |-> EmptyMap]

\* the conversation states of tuple t at hand: a new one, the cached one,
\* the one the provider holds
InputStates(t) ==
    {FreshState([tokenId |-> t.tokenId, conversationId |-> t.conversationId,
                 accountId |-> t.accountId], now)}
    \cup {cache[n].state : n \in {j \in 1..Len(cache) : cache[j].key = KeyOf(t)}}
    \cup (IF IsSome(store[t]) THEN {Val(store[t])} ELSE {})

\* the calls the caller can make, when no call is in flight, with an input
\* state
InputCalls ==
    {[tokenId |-> t.tokenId, conversationId |-> t.conversationId,
      accountId |-> t.accountId, message |-> m, state |-> Some(st)] :
        t \in sc.tuples, m \in sc.messages, st \in UNION {InputStates(u) : u \in sc.tuples}}

\* C24 as stated: with the loaded rules, a message and an input state given,
\* the engine returns what a newly constructed engine with the same rules
\* returns, whatever calls it has served.
C24_DeterminismAsStated ==
    Quiet =>
        \A ctx \in InputCalls : \A ids \in SUBSET IndexedIds :
            Outcome(World, ctx, ids) = Outcome(FreshWorld, ctx, ids)

\* C24: determinism: with the loaded rules, a message, an input state, the
\* answers of the matcher and the threshold counters given, the results are
\* the same whatever calls the engine has served: the state cache and the
\* compiled patterns have no part in them.
C24_Determinism ==
    Quiet =>
        \A ctx \in InputCalls : \A ids \in SUBSET IndexedIds :
            Outcome(World, ctx, ids) =
                Outcome([FreshWorld EXCEPT !.trackers = trackers], ctx, ids)

\* the engine has served two calls, holds a cached state and a compiled
\* pattern, and a call that makes K1 fire gives what it gives on an engine
\* that has only the same threshold counters
C24_ServedEngineSameResults ==
    /\ Quiet
    /\ calls >= 2
    /\ regexCache # {}
    /\ Len(cache) > 0
    /\ \E ctx \in InputCalls :
          LET o == Outcome(World, ctx, {})
          IN  /\ \E k \in 1..Len(o.results) :
                    o.results[k].rule.id = "K1" /\ o.results[k].matched
              /\ o = Outcome([FreshWorld EXCEPT !.trackers = trackers], ctx, {})

\* in this step the call of slot s, made without ctx.state, gets the state
\* it works on
Hydrates(s) ==
    /\ ~IsSome(frames[s].hydrated)
    /\ IsSome(frames'[s].hydrated)
    /\ ~IsSome(frames'[s].ctx.state)

\* the state last stored for a key, whatever its last access
StoredState(c, key) ==
    IF IndexOfKey(c, key) # 0 THEN Some(c[IndexOfKey(c, key)].state) ELSE None

\* a stored state whose expires_at has not passed is the state a call on
\* its tuple works on
C25_InEffectUntilExpiry ==
    \A s \in Slots :
        ( /\ Hydrates(s)
          /\ IsSome(StoredState(cache, CtxKey(frames'[s])))
          /\ now <= Val(StoredState(cache, CtxKey(frames'[s]))).expiresAt )
        => Val(frames'[s].hydrated).flags
               = Val(StoredState(cache, CtxKey(frames'[s]))).flags

\* a state whose expires_at has passed is not the state a call works on
C25_NotInEffectAfterExpiry ==
    \A s \in Slots :
        Hydrates(s) => now <= Val(frames'[s].hydrated).expiresAt

\* C25: state lifetime: the flags set by a rule fired at time t stay true for
\* the calls on the tuple at every time up to expires_at = t + ttl * 1000,
\* also when the messages in between match nothing, and the state is no
\* longer in effect once expires_at has passed.
C25_StateLifetime == [][C25_InEffectUntilExpiry /\ C25_NotInEffectAfterExpiry]_vars

\* state st is the state of the tuple of the call ctx
OwnState(st, ctx) ==
    /\ TupleOf(st) = TupleOf(ctx)
    /\ st.id = getKey(ctx.tokenId, ctx.conversationId, ctx.accountId)

\* C26: a state record belongs to exactly one conversation tuple: every
\* cache entry holds, under its key, the state of the tuple that has this
\* key, and the state a call for tuple T works on and every state its
\* results carry are T's.
C26_StateBelongsToTuple ==
    /\ \A i \in 1..Len(cache) :
          /\ cache[i].state.id = cache[i].key
          /\ KeyOf(TupleOf(cache[i].state)) = cache[i].key
    /\ \A s \in Slots :
          /\ IsSome(frames[s].state) => OwnState(Val(frames[s].state), frames[s].ctx)
          /\ \A k \in 1..Len(frames[s].results) :
                IsSome(frames[s].results[k].state) =>
                    OwnState(Val(frames[s].results[k].state), frames[s].ctx)

(***************************************************************************)
(* C27: the priority sort is stable.  Rules with equal priority keys keep  *)
(* the order they had in the array passed to loadRules: in the loaded      *)
(* list, in the order a call evaluates them and in the result list.        *)
(* loadRules leaves the array of the caller as it was.                     *)
(***************************************************************************)
\* the position of the rule with this id in a list of rules
PlaceOf(rs, id) == CHOOSE i \in 1..Len(rs) : rs[i].id = id

\* rules of list that have equal priority keys come in the order of author
InAuthorOrder(author, list) ==
    \A i, j \in 1..Len(list) :
        (i < j /\ getRulePriority(list[i]) = getRulePriority(list[j])) =>
            PlaceOf(author, list[i].id) < PlaceOf(author, list[j].id)

\* the list goes through rules of the order list in that order
FollowsOrder(list, order) ==
    \A i, j \in 1..Len(list) :
        i < j => PlaceOf(order, list[i].id) < PlaceOf(order, list[j].id)

C27_LoadKeepsAuthorOrder ==
    \A lib \in sc.libs :
        LoadRules(lib) =>
            /\ InAuthorOrder(lib, rules')
            /\ \A i \in 1..Len(rules') : \E j \in 1..Len(lib) : lib[j] = rules'[i]
            /\ loadRulesArgument(lib) = lib

C27_CallKeepsLoadedOrder ==
    \A s \in Slots :
        frames[s].pc # "idle" =>
            /\ FollowsOrder(frames[s].eligible, rules)
            /\ FollowsOrder([k \in 1..Len(frames[s].results) |->
                                 frames[s].results[k].rule], frames[s].eligible)

C27_StableSort == []C27_CallKeepsLoadedOrder /\ [][C27_LoadKeepsAuthorOrder]_vars

\* a call returned results of R1 and R2, rules with equal keys, in the order
\* the library lists them
C27_EqualKeysInResults ==
    \E s \in Slots :
        /\ frames[s].pc = "returned"
        /\ getRulePriority(R1) = getRulePriority(R2)
        /\ PlaceOf(LibPhish, "R1") < PlaceOf(LibPhish, "R2")
        /\ \E k \in 1..(Len(frames[s].results) - 1) :
              /\ frames[s].results[k].rule = R1
              /\ frames[s].results[k + 1].rule = R2

(***************************************************************************)
(* C28: shutdown clears all state that is not persisted and is idempotent. *)
(* After a shutdown the State Cache, the pending-write set, the regex      *)
(* cache and the threshold counters are empty, the stats report            *)
(* cacheSize = 0 and regexCacheSize = 0, and a further shutdown leaves     *)
(* the engine in the same state.                                           *)
(***************************************************************************)
Cleared ==
    /\ cache = <<>>
    /\ writeQueue = {}
    /\ regexCache = {}
    /\ trackers = EmptyMap
    /\ getStats.cacheSize = 0
    /\ getStats.regexCacheSize = 0

C28_ShutdownClears == Shutdown => Cleared'

C28_ShutdownAgain == (Shutdown /\ Cleared) => UNCHANGED vars

C28_TwiceIsOnce == shutdown(shutdown(World)) = shutdown(World)

C28_ShutdownIdempotent ==
    []C28_TwiceIsOnce /\ [][C28_ShutdownClears /\ C28_ShutdownAgain]_vars

\* the engine served a call that cached and saved a state, and a shutdown
\* emptied it
C28_ClearedAfterUse ==
    /\ Quiet
    /\ calls > 0
    /\ IsSome(store[TupA])
    /\ Cleared

(***************************************************************************)
(* C29: flush before evict.  When StateCache.set evicts an entry to make   *)
(* room, the entry is not dirty (its key is not in the pending-write set)  *)
(* at the moment it is dropped, so no key stays in the pending-write set   *)
(* without a cached entry.                                                 *)
(***************************************************************************)
\* the step drops the entry at place i of the cache to make room for another
Evicts(i) ==
    /\ cache' # <<>>
    /\ IndexOfKey(cache', cache[i].key) = 0

C29_EvictedNotDirty ==
    \A i \in 1..Len(cache) : Evicts(i) => cache[i].key \notin writeQueue

C29_PendingKeysCached == \A key \in writeQueue : IndexOfKey(cache, key) # 0

C29_FlushBeforeEvict == []C29_PendingKeysCached /\ [][C29_EvictedNotDirty]_vars

(***************************************************************************)
(* C30: capacity and eviction by oldest access.  After every completed     *)
(* StateCache.set the cache has at most maxSize entries, and a set called  *)
(* with the cache at maxSize removes an entry whose lastAccess is the      *)
(* minimum of the entries the cache has at that moment.                    *)
(***************************************************************************)
MinLastAccess(c, i) == \A j \in 1..Len(c) : c[i].lastAccess <= c[j].lastAccess

\* the entries of a cache under other keys, without the one at place i
OthersWithout(c, key, i) ==
    {c[j] : j \in {n \in 1..Len(c) : n # i /\ c[n].key # key}}

C30_Capacity == Len(cache) <= maxSize

\* a set for any tuple of the callers, in the cache as it is
C30_SetEvictsOldest ==
    \A t \in sc.tuples :
        LET after == StateCacheSet(cache, KeyOf(t), FreshState(t, now), now)
        IN  /\ Len(after) <= maxSize
            /\ Len(cache) >= maxSize =>
                  \E i \in 1..Len(cache) :
                      /\ MinLastAccess(cache, i)
                      /\ OthersWithout(after, KeyOf(t), 0)
                             = OthersWithout(cache, KeyOf(t), i)

\* an entry a step drops was one of the oldest of a full cache
C30_DroppedWasOldest ==
    \A i \in 1..Len(cache) :
        Evicts(i) => (Len(cache) >= maxSize /\ MinLastAccess(cache, i))

C30_CapacityAndLRU ==
    [](C30_Capacity /\ C30_SetEvictsOldest) /\ [][C30_DroppedWasOldest]_vars

\* two calls, one at time 0 and one after a tick: the tuple of the first is
\* still in the write queue of time 0 and has lost its entry, the older one,
\* to a set of the second call
C30_EvictionHappened ==
    /\ calls = 2
    /\ ticks = 1
    /\ timer = Some(batchDelay)
    /\ Len(cache) = 1
    /\ cache[1].lastAccess > 0
    /\ \E t \in sc.tuples :
          /\ KeyOf(t) \in writeQueue
          /\ IndexOfKey(cache, KeyOf(t)) = 0

(***************************************************************************)
(* C31: flushWrites hands every entry that is dirty at that moment to the  *)
(* persistence provider and clears the dirty set: after a flush no cached  *)
(* entry is marked dirty, and every state that was marked dirty before the *)
(* flush has reached the provider.                                         *)
(***************************************************************************)
C31_NoneDirtyAfterFlush ==
    TimerFires => \A i \in 1..Len(cache') : ~cache'[i].dirty

C31_DirtyReachedProvider ==
    TimerFires =>
        \A i \in 1..Len(cache) :
            cache[i].dirty =>
                store'[TupleOf(cache[i].state)] = Some(cache[i].state)

C31_FlushWrites == [][C31_NoneDirtyAfterFlush /\ C31_DirtyReachedProvider]_vars

(***************************************************************************)
(* C32: the flush timer.  At most one batch timer is armed: the first      *)
(* markDirty of an idle period arms it and later ones before it fires      *)
(* leave it alone.  Whenever the pending-write set is not empty a timer    *)
(* is armed, so every markDirty is followed by a flush that empties the    *)
(* set, after which the timer is idle again.                               *)
(***************************************************************************)
C32_ArmedWhilePending == writeQueue # {} => IsSome(timer)

\* an armed timer stays as it is until it fires
C32_NotArmedTwice ==
    IsSome(timer) => (timer' = timer \/ (TimerFires /\ timer' = None))

\* the first markDirty of an idle period arms the timer for batchDelay later
C32_FirstDirtyArms ==
    (timer = None /\ writeQueue' # {}) => timer' = Some(now + batchDelay)

\* the clock of the model can still reach the due time of the timer
TimeCanPass == ticks < MaxTicks \/ (IsSome(timer) /\ now >= Val(timer))

C32_Flushed == writeQueue = {} /\ timer = None

C32_FlushTimer ==
    /\ []C32_ArmedWhilePending
    /\ [][C32_NotArmedTwice /\ C32_FirstDirtyArms]_vars
    /\ ((writeQueue # {} /\ TimeCanPass) ~> C32_Flushed)

\* an entry was marked dirty, the timer fired and is idle again
C32_FlushedAfterDirty ==
    /\ C32_Flushed
    /\ \E i \in 1..Len(cache) : cache[i].dirty

(***************************************************************************)
(* C33: cache TTL.  StateCache.get returns the cached state iff the tuple  *)
(* has an entry and now - lastAccess < 300000 ms, and on such a hit sets   *)
(* lastAccess to now; otherwise it returns nothing.  So an entry read      *)
(* within every 5 minutes stays, and an entry idle for 5 minutes or more   *)
(* is not returned again until it is set again.                            *)
(***************************************************************************)
\* the tuple has an entry that was accessed less than 5 minutes ago
ReadInTime(key) ==
    /\ IndexOfKey(cache, key) # 0
    /\ now - cache[IndexOfKey(cache, key)].lastAccess < 300000

\* a get for any tuple of the callers, in the cache as it is
C33_GetByAge ==
    \A t \in sc.tuples :
        LET key == KeyOf(t)
            got == StateCacheGet(cache, key, now)
            i == IndexOfKey(cache, key)
        IN  /\ IsSome(got.state) <=> ReadInTime(key)
            /\ ReadInTime(key) =>
                  /\ got.state = Some(cache[i].state)
                  /\ got.cache = [cache EXCEPT ![i].lastAccess = now]
            /\ ~ReadInTime(key) => got.cache = cache

\* a call that starts without ctx.state works on the cached state when the
\* entry was read in time; without, and with no provider, on a fresh state
C33_CallReadsByAge ==
    \A s \in Slots :
        (frames[s].pc = "idle" /\ Hydrates(s)) =>
            LET key == CtxKey(frames'[s])
            IN  IF ReadInTime(key)
                THEN frames'[s].hydrated = Some(cache[IndexOfKey(cache, key)].state)
                ELSE ~hasProvider =>
                         frames'[s].hydrated = Some(FreshState(frames'[s].ctx, now))

C33_CacheTtl == []C33_GetByAge /\ [][C33_CallReadsByAge]_vars

\* a call 5 seconds after the state was cached works on that state and
\* updates it
C33_ReadBeforeExpiry ==
    \E s \in Slots :
        /\ now = 5000
        /\ ~hasProvider
        /\ ~hasMatcher
        /\ frames[s].pc # "idle"
        /\ ~IsSome(frames[s].ctx.state)
        /\ IsSome(frames[s].hydrated)
        /\ Val(frames[s].hydrated).createdAt = 0
        /\ \E k \in 1..Len(frames[s].results) :
              /\ IsSome(frames[s].results[k].state)
              /\ Val(frames[s].results[k].state).updatedAt = 5000

(***************************************************************************)
(* C34: flagHistory is append-only within a state lifetime.  Over the      *)
(* successive states of a tuple that fired rules produce, within a pass    *)
(* and across sequential evaluations while the state stays cached, each    *)
(* new state's history is the previous state's history followed by one     *)
(* {flag, set, rule.id, now} entry per flag of flags.set and then one      *)
(* {flag, unset, rule.id, now} entry per flag of flags.unset.              *)
(***************************************************************************)
HistoryEntries(names, action, ruleId, t) ==
    [k \in 1..Len(names) |->
        [flag |-> names[k], action |-> action, ruleId |-> ruleId, timestamp |-> t]]

\* what a fired rule adds to the history
HistoryOf(rule, t) ==
    IF ~IsSome(rule.flags) THEN <<>>
    ELSE (IF IsSome(Val(rule.flags).set)
          THEN HistoryEntries(Val(Val(rule.flags).set), "set", rule.id, t)
          ELSE <<>>)
         \o
         (IF IsSome(Val(rule.flags).unset)
          THEN HistoryEntries(Val(Val(rule.flags).unset), "unset", rule.id, t)
          ELSE <<>>)

\* a rule fires: the state it produces extends the state of the call, and a
\* rule with flags stores it in the cache
C34_FiredRuleAppends ==
    \A s \in Slots :
        Fires(s) =>
            LET f == frames'[s]
                rule == f.eligible[f.i]
                i == IndexOfKey(cache', CtxKey(f))
            IN  /\ Val(f.pending).flagHistory
                       = Val(f.state).flagHistory \o HistoryOf(rule, now)
                /\ IsSome(rule.flags) =>
                       (i # 0 /\ cache'[i].state = Val(f.pending))

\* within a pass the state a rule produced is the state of the call from
\* then on
C34_PassGoesOn ==
    \A s \in Slots :
        (frames[s].pc = "awaitUpdate" /\ Steps(s)) =>
            frames'[s].state = frames[s].pending

\* the next call starts from the cached state while it stays cached
C34_NextCallGoesOn ==
    \A s \in Slots :
        (frames[s].pc = "idle" /\ Hydrates(s) /\ ReadInTime(CtxKey(frames'[s]))) =>
            Val(frames'[s].hydrated).flagHistory
                = cache[IndexOfKey(cache, CtxKey(frames'[s]))].state.flagHistory

C34_HistoryAppendOnly ==
    [][C34_FiredRuleAppends /\ C34_PassGoesOn /\ C34_NextCallGoesOn]_vars

\* a second call, later than the first, fired H1 and H2: the history holds
\* the entries of the first call, then those of H1 and of H2
C34_HistoryOfTwoCalls ==
    \E s \in Slots :
        /\ frames[s].pc = "returned"
        /\ \E k \in 1..Len(frames[s].results) :
              /\ frames[s].results[k].rule = H2
              /\ IsSome(frames[s].results[k].state)
              /\ Val(frames[s].results[k].state).flagHistory
                     = HistoryOf(H1, 0) \o HistoryOf(H1, 5000) \o HistoryOf(H2, 5000)

(***************************************************************************)
(* C35: the rule list is replaced atomically.  Every call evaluates rules  *)
(* from exactly one loaded list: a loadRules while a call is suspended in  *)
(* its rule loop changes neither the set nor the order of the rules that   *)
(* call goes on to evaluate, and later calls see only the new list.        *)
(***************************************************************************)
\* the call has made its list of eligible rules and has not been handed back
InLoop(f) == f.i > 0

\* no step, a load among them, changes the list a call works on
C35_ListOfCallFixed ==
    \A s \in Slots :
        (InLoop(frames[s]) /\ InLoop(frames'[s])) =>
            frames'[s].eligible = frames[s].eligible

\* a call makes its list from the list loaded at that moment
C35_ListFromLoaded ==
    \A s \in Slots :
        (~InLoop(frames[s]) /\ InLoop(frames'[s])) =>
            frames'[s].eligible = preFilterRules(rules, Val(frames'[s].hydrated))

\* the rule a call is at, and the rules of its results, are rules of its list
C35_EvaluatesItsList ==
    \A s \in Slots :
        InLoop(frames[s]) =>
            /\ frames[s].pc \in {"awaitSemantic", "awaitUpdate"} =>
                   frames[s].i \in 1..Len(frames[s].eligible)
            /\ FollowsOrder([k \in 1..Len(frames[s].results) |->
                                 frames[s].results[k].rule], frames[s].eligible)
            /\ \A k \in 1..Len(frames[s].results) :
                   \E j \in 1..Len(frames[s].eligible) :
                       frames[s].eligible[j] = frames[s].results[k].rule

C35_AtomicReplace ==
    []C35_EvaluatesItsList /\ [][C35_ListOfCallFixed /\ C35_ListFromLoaded]_vars

\* a call that passed the await on the semantic matcher fires R1, a rule of
\* the list it started with, while the engine holds a list without R1
C35_ReplacedInFlight ==
    \E s \in Slots :
        /\ rules = loadRulesList(LibOff)
        /\ frames[s].pc = "awaitUpdate"
        /\ frames[s].eligible = loadRulesList(LibRace)
        /\ frames[s].eligible[frames[s].i] = R1
        /\ \E k \in 1..Len(frames[s].results) : frames[s].results[k].rule = S1

(***************************************************************************)
(* C36: tuple keys are injective.  The key of the State Cache and of the   *)
(* Threshold Tracker maps two distinct (tokenId, conversationId,           *)
(* accountId) tuples to two distinct keys, also for ids that contain ':'   *)
(* and for an accountId that is absent against one that is the empty       *)
(* string.                                                                 *)
(***************************************************************************)
\* the tuples of the callers, and the same with an empty accountId
KeyInputs ==
    sc.tuples \cup {[t EXCEPT !.accountId = Some("")] : t \in sc.tuples}

C36_KeysInjective ==
    \A t1, t2 \in KeyInputs : KeyOf(t1) = KeyOf(t2) => t1 = t2

(***************************************************************************)
(* C37: threshold counting is atomic under interleaving.  For a rule with  *)
(* threshold N and k overlapping calls on one tuple whose message          *)
(* qualifies, all in one window and with no counter before, each call is   *)
(* counted exactly once and exactly floor(k/N) of the calls have           *)
(* matched=true for the rule, whatever the interleaving at the provider    *)
(* and matcher suspension points.                                          *)
(***************************************************************************)
\* the call has been through the threshold check of the rule
Counted(f, r) ==
    \/ \E k \in 1..Len(f.results) : f.results[k].rule = r
    \/ f.pc = "awaitUpdate" /\ f.i \in 1..Len(f.eligible) /\ f.eligible[f.i] = r

\* the check let the call through: matched=true for the rule
LetThrough(f, r) ==
    \/ \E k \in 1..Len(f.results) : f.results[k].rule = r /\ f.results[k].matched
    \/ f.pc = "awaitUpdate" /\ f.i \in 1..Len(f.eligible) /\ f.eligible[f.i] = r

\* the calls made so far are all with the engine still: a burst of calls
\* that overlap, in one window, with no counter before it
Burst == calls = InFlight /\ ticks = 0

CountIn(tr, key, id) ==
    IF IsSome(TrackerEntry(tr, key, id))
    THEN Val(TrackerEntry(tr, key, id)).count ELSE 0

CountOf(key, id) == CountIn(trackers, key, id)

C37_BurstCount ==
    Burst =>
        \A t \in sc.tuples : \A j \in 1..Len(rules) :
            LET r == rules[j]
                N == Val(r.threshold)
                of == {s \in Slots : frames[s].pc # "idle"
                                     /\ TupleOf(frames[s].ctx) = t}
                counted == {s \in of : Counted(frames[s], r)}
                through == {s \in of : LetThrough(frames[s], r)}
            IN  RateLimited(r) =>
                  /\ Cardinality(through) = Cardinality(counted) \div N
                  /\ CountOf(KeyOf(t), r.id) = Cardinality(counted) % N
                  /\ \A s \in of :
                        (frames[s].pc = "returned"
                         /\ \E m \in 1..Len(frames[s].eligible) : frames[s].eligible[m] = r
                         /\ ContentMatches(r, frames[s].ctx.message))
                        => /\ Counted(frames[s], r)
                           /\ Cardinality({k \in 1..Len(frames[s].results) :
                                              frames[s].results[k].rule = r}) = 1

\* a step of a call that goes through the check counts one
C37_StepCountsOne ==
    \A s \in Slots : \A j \in 1..Len(rules) :
        LET r == rules[j]
            key == CtxKey(frames'[s])
        IN  (RateLimited(r) /\ ticks = 0 /\ Qualifies(s, r)) =>
                CountIn(trackers', key, r.id)
                    = (CountIn(trackers, key, r.id) + 1) % Val(r.threshold)

C37_AtomicCounting == []C37_BurstCount /\ [][C37_StepCountsOne]_vars

\* two calls overlap: the second one made went through the check first
\* (matched=false), the first one after it (matched=true); both have
\* returned and the counter is gone
C37_TwoOverlapOneFires ==
    /\ Burst
    /\ calls = 2
    /\ \A s \in 1..2 : frames[s].pc = "returned"
    /\ \E k \in 1..Len(frames[2].results) : frames[2].results[k] = NonMatch(TB)
    /\ \E k \in 1..Len(frames[1].results) :
          frames[1].results[k].rule = TB /\ frames[1].results[k].matched
    /\ CountOf(KeyOf(TupA), "TB") = 0

(***************************************************************************)
(* C38: replacing a cached entry never evicts.  StateCache.set for a tuple *)
(* that has an entry replaces that entry and removes the entry of no other *)
(* tuple, also when the cache holds maxSize entries: the set of cached     *)
(* keys is the same before and after.                                      *)
(***************************************************************************)
KeysOf(c) == {c[i].key : i \in 1..Len(c)}

\* a set for any tuple of the callers that has an entry, in the cache as it
\* is
C38_SetOnCachedKey ==
    \A t \in sc.tuples :
        KeyOf(t) \in KeysOf(cache) =>
            KeysOf(StateCacheSet(cache, KeyOf(t), FreshState(t, now), now))
                = KeysOf(cache)

\* the set of updateState, for the tuple of a call that has its entry
C38_UpdateKeepsOthers ==
    \A s \in Slots :
        (Fires(s) /\ IsSome(frames'[s].eligible[frames'[s].i].flags)
                  /\ frames[s].pc # "idle"
                  /\ CtxKey(frames'[s]) \in KeysOf(cache)) =>
            KeysOf(cache') = KeysOf(cache)

C38_ReplaceKeepsKeys == []C38_SetOnCachedKey /\ [][C38_UpdateKeepsOthers]_vars

(***************************************************************************)
(* LanceDBSemanticMatcher: this.initialized, this.rules and the rows of    *)
(* the table threat_patterns (this.table is null until a table is made)    *)
(***************************************************************************)
\* the matcher after initialize()
MatcherInitialized == [initialized |-> TRUE, rules |-> <<>>, table |-> None]

\* rules.filter(r => r.semantic && r.semantic.length > 0)
semanticRulesOf(rs) == SelectSeq(rs, LAMBDA r : NonEmpty(r.semantic))

\* the rows built from the patterns whose embedding was generated: a
\* pattern in failed makes generateEmbedding throw and is skipped
embeddingsOf(semanticRules, failed) ==
    UNION {{[rule_id |-> semanticRules[i].id, pattern |-> Val(semanticRules[i].semantic)[j]] :
               j \in {k \in 1..Len(Val(semanticRules[i].semantic)) :
                         Val(semanticRules[i].semantic)[k] \notin failed}} :
              i \in 1..Len(semanticRules)}

\* LanceDBSemanticMatcher.loadRules: the matcher it leaves and whether it
\* threw; dbFails is a failure of createTable
matcherLoadRules(m, rs, failed, dbFails) ==
    LET semanticRules == semanticRulesOf(rs)
        embeddings == embeddingsOf(semanticRules, failed)
    IN  IF ~m.initialized
        THEN [threw |-> TRUE, matcher |-> m]
        ELSE IF Len(semanticRules) = 0
        THEN [threw |-> FALSE, matcher |-> m]
        ELSE IF embeddings = {}
        THEN [threw |-> FALSE, matcher |-> [m EXCEPT !.rules = semanticRules]]
        ELSE IF dbFails
        THEN [threw |-> TRUE, matcher |-> [m EXCEPT !.rules = semanticRules]]
        ELSE [threw |-> FALSE,
              matcher |-> [m EXCEPT !.rules = semanticRules,
                                    !.table = Some(embeddings)]]

\* LanceDBSemanticMatcher.queryRules: hits are the rows the search returned
\* with a similarity at or above the threshold; each is mapped to the rule
\* of this.rules with its rule_id, rows without such a rule are dropped
matcherQueryRules(m, hits) ==
    IF ~IsSome(m.table)
    THEN {}
    ELSE {m.rules[i] : i \in {k \in 1..Len(m.rules) :
                                 \E row \in hits : row.rule_id = m.rules[k].id}}

(***************************************************************************)
(* C39: after LanceDBSemanticMatcher.loadRules(R) has returned normally,   *)
(* queryRules only returns rules that belong to R: the rules and the       *)
(* exemplar embeddings of an earlier loadRules are no longer matched, also *)
(* when R has no rule with semantic patterns.                              *)
(***************************************************************************)
PatternsOf(lib) ==
    UNION {{Val(lib[i].semantic)[j] : j \in 1..Len(Val(lib[i].semantic))} :
              i \in {k \in 1..Len(lib) : NonEmpty(lib[k].semantic)}}

\* the matcher after a first loadRules(earlier) that built its table
MatcherLoadedWith(earlier) ==
    matcherLoadRules(MatcherInitialized, earlier, {}, FALSE).matcher

C39_QueryOnlyLoaded ==
    \A earlier \in sc.libs : \A R \in sc.libs :
        \A failed \in SUBSET PatternsOf(R) :
            LET load == matcherLoadRules(MatcherLoadedWith(earlier), R, failed, FALSE)
            IN  ~load.threw =>
                    \A hits \in SUBSET (IF IsSome(load.matcher.table)
                                        THEN Val(load.matcher.table) ELSE {}) :
                        /\ matcherQueryRules(load.matcher, hits)
                               \subseteq {R[i] : i \in 1..Len(R)}
                        /\ hits \subseteq embeddingsOf(semanticRulesOf(R), {})

(***************************************************************************)
(* C40: the counters of the Threshold Tracker, for a fixed loaded rule     *)
(* set.  Every stored entry of a rule with threshold N has a count of at   *)
(* least 1 and below N, and a count of exactly 1 when N = 1; an entry      *)
(* whose count reaches N (N >= 2) is deleted by the check that fires; and  *)
(* check creates or changes no entry for a rule that lacks a threshold or  *)
(* a window.                                                               *)
(***************************************************************************)
\* the rule has both a threshold and a window
Counts(rule) == TruthyNum(rule.threshold) /\ TruthyNum(rule.window)

LoadedWithId(id) == {rules[j] : j \in {k \in 1..Len(rules) : rules[k].id = id}}

\* the stored entries: only for rules that count, and in the range of their
\* threshold
C40_EntriesInRange ==
    \A key \in DOMAIN trackers : \A id \in DOMAIN trackers[key] :
        \A r \in LoadedWithId(id) :
            /\ Counts(r)
            /\ trackers[key][id].count >= 1
            /\ IF Val(r.threshold) = 1
               THEN trackers[key][id].count = 1
               ELSE trackers[key][id].count < Val(r.threshold)

\* a check of any loaded rule for any tuple of the callers, on the counters
\* as they are
C40_CheckOnCounters ==
    \A j \in 1..Len(rules) : \A t \in sc.tuples :
        LET r == rules[j]
            key == KeyOf(t)
            res == ThresholdCheck(trackers, r, key, now)
            e == TrackerEntry(trackers, key, r.id)
            e2 == TrackerEntry(res.trackers, key, r.id)
        IN  /\ ~Counts(r) => (res.trackers = trackers /\ res.met)
            /\ (Counts(r) /\ Val(r.threshold) >= 2) =>
                  /\ res.met => e2 = None
                  /\ ( /\ IsSome(e)
                       /\ now <= Val(e).windowEnd
                       /\ Val(e).count + 1 >= Val(r.threshold) )
                     => (res.met /\ e2 = None)
            /\ (Counts(r) /\ IsSome(e2)) =>
                  /\ Val(e2).count >= 1
                  /\ IF Val(r.threshold) = 1
                     THEN Val(e2).count = 1
                     ELSE Val(e2).count < Val(r.threshold)

\* the checks the calls make: the one that lets a rule with N >= 2 fire
\* leaves no entry of it, and the check of a rule that does not count
\* leaves the counters as they were
C40_CheckInCall ==
    \A s \in Slots : \A j \in 1..Len(rules) :
        LET r == rules[j]
        IN  /\ (Passes(s, r) /\ Counts(r) /\ Val(r.threshold) >= 2) =>
                  TrackerEntry(trackers', CtxKey(frames'[s]), r.id) = None
            /\ (Passes(s, r) /\ ~Counts(r)) =>
                  \A key \in DOMAIN trackers' : r.id \notin DOMAIN trackers'[key]
            /\ ( /\ Passes(s, r) /\ ~Counts(r)
                 /\ Visited(s) = {frames'[s].i} ) => trackers' = trackers

C40_CounterInvariant ==
    /\ [](C40_EntriesInRange /\ C40_CheckOnCounters)
    /\ [][C40_CheckInCall]_vars

\* three calls in one window: T3 (threshold 3) fired in the third and has no
\* entry, TA (threshold 1) fired for the third time and has an entry with
\* count 1, TW and TV fired and have none
C40_ThirdCallCounted ==
    \E s \in Slots :
        /\ frames[s].pc = "returned"
        /\ calls = 3 /\ ticks = 0
        /\ \A id \in {"T3", "TA", "TW", "TV"} :
              \E k \in 1..Len(frames[s].results) :
                  /\ frames[s].results[k].rule.id = id
                  /\ frames[s].results[k].matched
        /\ TrackerEntry(trackers, KeyOf(TupA), "T3") = None
        /\ IsSome(TrackerEntry(trackers, KeyOf(TupA), "TA"))
        /\ Val(TrackerEntry(trackers, KeyOf(TupA), "TA")).count = 1
        /\ TrackerEntry(trackers, KeyOf(TupA), "TW") = None
        /\ TrackerEntry(trackers, KeyOf(TupA), "TV") = None

====
